---------------------------- MODULE Spec2Model ----------------------------
(***************************************************************************)
(* Longitudinal change analysis engine (src/src/core/longitudinal_analyzer *)
(* .py) and the pipeline entry points that feed it                         *)
(* (src/src/core/image_analysis_pipeline.py).                              *)
(*                                                                         *)
(* The engine is a library of functions; its state is the frame of the     *)
(* call under way: which entry point is exercised (unit), the arguments    *)
(* of the calls the caller makes (args) and the values returned so far     *)
(* (rets).  One action per entry point performs the next pending call.     *)
(* Where invocations overlap in time, frames holds the local variables of  *)
(* each invocation and an action performs one statement of one of them.    *)
(* The access controller (src/src/security/access_control.py) has state    *)
(* of its own: the User objects (users) and the log of access attempts     *)
(* (access_log); there args and rets record the calls made so far.         *)
(*                                                                         *)
(* Numbers.  Python floats are modelled exactly where the code only        *)
(* compares them:                                                          *)
(*   - sizes are integers in tenths of a millimetre;                       *)
(*   - volumes are integers in hundredths of a cubic millimetre;           *)
(*   - a datetime is an integer number of ticks, TicksPerDay to the day,   *)
(*     so that two datetimes on one calendar day can differ;               *)
(*   - percentages and the doubling time are rationals [n, d] with d > 0,  *)
(*     compared by cross multiplication;                                   *)
(*   - math.log is a fixed-point base-2 logarithm with LogBits fractional  *)
(*     bits (ln 2 / ln r = 1 / log2 r).                                    *)
(* An Optional value is a sequence: << >> is None, <<x>> is x.             *)
(***************************************************************************)
EXTENDS Integers, Sequences, FiniteSets, TLC

VARIABLES unit, args, rets, frames, users, access_log

vars == <<unit, args, rets, frames, users, access_log>>

----------------------------------------------------------------------------
(* Enumerations *)

IMPROVING == "improving"
STABLE == "stable"
WORSENING == "worsening"
INDETERMINATE == "indeterminate"
ChangeTrajectory == {IMPROVING, STABLE, WORSENING, INDETERMINATE}

CATEGORY_0 == "0"
CATEGORY_1 == "1"
CATEGORY_2 == "2"
CATEGORY_3 == "3"
CATEGORY_4A == "4A"
CATEGORY_4B == "4B"
CATEGORY_4X == "4X"
LungRADSCategory ==
    {CATEGORY_0, CATEGORY_1, CATEGORY_2, CATEGORY_3, CATEGORY_4A,
     CATEGORY_4B, CATEGORY_4X}

LOW == "low"
INTERMEDIATE == "intermediate"
HIGH == "high"
VERY_HIGH == "very_high"
RiskLevel == {LOW, INTERMEDIATE, HIGH, VERY_HIGH}

VDT_HIGH_RISK == 400
VDT_INTERMEDIATE == 600

----------------------------------------------------------------------------
(* Optional values and rationals *)

None == << >>
Some(x) == <<x>>
IsNone(o) == o = << >>

Rat(n, d) == [n |-> n, d |-> d]
RatLt(q, k) == q.n < k * q.d
RatGt(q, k) == q.n > k * q.d
RatLe(q, k) == q.n <= k * q.d
RatAbs(q) == IF q.n < 0 THEN Rat(0 - q.n, q.d) ELSE q
RatLess(p, q) == p.n * q.d < q.n * p.d

\* Python truth value of an Optional[float]: None and 0.0 are false.
Truthy(o) == o # << >> /\ o[1].n # 0

----------------------------------------------------------------------------
(* assess_risk_level *)

\* Mutant: the two fastest tiers exchanged
assess_risk_level_tiers_swapped(vdt_days, lung_rads, trajectory) ==
    IF Truthy(vdt_days) /\ RatLt(vdt_days[1], 200) THEN HIGH
    ELSE IF Truthy(vdt_days) /\ RatLt(vdt_days[1], VDT_HIGH_RISK)
         THEN VERY_HIGH
    ELSE IF Truthy(vdt_days) /\ RatLt(vdt_days[1], VDT_INTERMEDIATE)
         THEN INTERMEDIATE
    ELSE IF lung_rads = CATEGORY_4B THEN VERY_HIGH
    ELSE IF lung_rads = CATEGORY_4A THEN HIGH
    ELSE IF lung_rads = CATEGORY_3 THEN INTERMEDIATE
    ELSE IF trajectory = WORSENING THEN HIGH
    ELSE LOW

\* Mutant: the category rules tried before the doubling time
assess_risk_level_category_first(vdt_days, lung_rads, trajectory) ==
    IF lung_rads = CATEGORY_4B THEN VERY_HIGH
    ELSE IF lung_rads = CATEGORY_4A THEN HIGH
    ELSE IF lung_rads = CATEGORY_3 THEN INTERMEDIATE
    ELSE IF Truthy(vdt_days) /\ RatLt(vdt_days[1], 200) THEN VERY_HIGH
    ELSE IF Truthy(vdt_days) /\ RatLt(vdt_days[1], VDT_HIGH_RISK) THEN HIGH
    ELSE IF Truthy(vdt_days) /\ RatLt(vdt_days[1], VDT_INTERMEDIATE)
         THEN INTERMEDIATE
    ELSE IF trajectory = WORSENING THEN HIGH
    ELSE LOW

\* Mutant: growth alone raises no tier
assess_risk_level_without_growth(vdt_days, lung_rads, trajectory) ==
    IF Truthy(vdt_days) /\ RatLt(vdt_days[1], 200) THEN VERY_HIGH
    ELSE IF Truthy(vdt_days) /\ RatLt(vdt_days[1], VDT_HIGH_RISK) THEN HIGH
    ELSE IF Truthy(vdt_days) /\ RatLt(vdt_days[1], VDT_INTERMEDIATE)
         THEN INTERMEDIATE
    ELSE IF lung_rads = CATEGORY_4B THEN VERY_HIGH
    ELSE IF lung_rads = CATEGORY_4A THEN HIGH
    ELSE IF lung_rads = CATEGORY_3 THEN INTERMEDIATE
    ELSE LOW

assess_risk_level(vdt_days, lung_rads, trajectory) ==
    IF Truthy(vdt_days) /\ RatLt(vdt_days[1], 200) THEN VERY_HIGH
    ELSE IF Truthy(vdt_days) /\ RatLt(vdt_days[1], VDT_HIGH_RISK) THEN HIGH
    ELSE IF Truthy(vdt_days) /\ RatLt(vdt_days[1], VDT_INTERMEDIATE)
         THEN INTERMEDIATE
    ELSE IF lung_rads = CATEGORY_4B THEN VERY_HIGH
    ELSE IF lung_rads = CATEGORY_4A THEN HIGH
    ELSE IF lung_rads = CATEGORY_3 THEN INTERMEDIATE
    ELSE IF trajectory = WORSENING THEN HIGH
    ELSE LOW


----------------------------------------------------------------------------
(* classify_lung_rads: sizes in tenths of a millimetre *)

Mm(x) == 10 * x

\* Mutant: an unrecognized morphology left incomplete (category 0)
classify_unrecognized_incomplete(size_mm, nodule_type, growth_detected, vdt_days) ==
    IF nodule_type = "solid" THEN
        IF size_mm < Mm(6) THEN CATEGORY_2
        ELSE IF size_mm < Mm(8) THEN
            (IF growth_detected THEN CATEGORY_4A ELSE CATEGORY_3)
        ELSE IF size_mm < Mm(15) THEN
            (IF growth_detected /\ Truthy(vdt_days)
                /\ RatLt(vdt_days[1], VDT_HIGH_RISK)
             THEN CATEGORY_4B ELSE CATEGORY_4A)
        ELSE CATEGORY_4B
    ELSE IF nodule_type = "ground-glass" THEN
        IF size_mm < Mm(30) THEN CATEGORY_2
        ELSE (IF growth_detected THEN CATEGORY_4A ELSE CATEGORY_3)
    ELSE IF nodule_type = "part-solid" THEN
        IF size_mm < Mm(6) THEN CATEGORY_2
        ELSE (IF growth_detected THEN CATEGORY_4B ELSE CATEGORY_4A)
    ELSE CATEGORY_0

\* Mutant: a solid 8-15 mm nodule without fast growth taken as category 3
classify_mid_solid_benign(size_mm, nodule_type, growth_detected, vdt_days) ==
    IF nodule_type = "solid" THEN
        IF size_mm < Mm(6) THEN CATEGORY_2
        ELSE IF size_mm < Mm(8) THEN
            (IF growth_detected THEN CATEGORY_4A ELSE CATEGORY_3)
        ELSE IF size_mm < Mm(15) THEN
            (IF growth_detected /\ Truthy(vdt_days)
                /\ RatLt(vdt_days[1], VDT_HIGH_RISK)
             THEN CATEGORY_4B ELSE CATEGORY_3)
        ELSE CATEGORY_4B
    ELSE IF nodule_type = "ground-glass" THEN
        IF size_mm < Mm(30) THEN CATEGORY_2
        ELSE (IF growth_detected THEN CATEGORY_4A ELSE CATEGORY_3)
    ELSE IF nodule_type = "part-solid" THEN
        IF size_mm < Mm(6) THEN CATEGORY_2
        ELSE (IF growth_detected THEN CATEGORY_4B ELSE CATEGORY_4A)
    ELSE CATEGORY_3

\* Mutant: the 8 mm boundary of solid nodules taken as inclusive
classify_8mm_inclusive(size_mm, nodule_type, growth_detected, vdt_days) ==
    IF nodule_type = "solid" THEN
        IF size_mm < Mm(6) THEN CATEGORY_2
        ELSE IF size_mm <= Mm(8) THEN
            (IF growth_detected THEN CATEGORY_4A ELSE CATEGORY_3)
        ELSE IF size_mm < Mm(15) THEN
            (IF growth_detected /\ Truthy(vdt_days)
                /\ RatLt(vdt_days[1], VDT_HIGH_RISK)
             THEN CATEGORY_4B ELSE CATEGORY_4A)
        ELSE CATEGORY_4B
    ELSE IF nodule_type = "ground-glass" THEN
        IF size_mm < Mm(30) THEN CATEGORY_2
        ELSE (IF growth_detected THEN CATEGORY_4A ELSE CATEGORY_3)
    ELSE IF nodule_type = "part-solid" THEN
        IF size_mm < Mm(6) THEN CATEGORY_2
        ELSE (IF growth_detected THEN CATEGORY_4B ELSE CATEGORY_4A)
    ELSE CATEGORY_3

\* Mutant: a solid nodule of 15 mm or more classed 4A
classify_large_solid_4a(size_mm, nodule_type, growth_detected, vdt_days) ==
    IF nodule_type = "solid" THEN
        IF size_mm < Mm(6) THEN CATEGORY_2
        ELSE IF size_mm < Mm(8) THEN
            (IF growth_detected THEN CATEGORY_4A ELSE CATEGORY_3)
        ELSE IF size_mm < Mm(15) THEN
            (IF growth_detected /\ Truthy(vdt_days)
                /\ RatLt(vdt_days[1], VDT_HIGH_RISK)
             THEN CATEGORY_4B ELSE CATEGORY_4A)
        ELSE CATEGORY_4A
    ELSE IF nodule_type = "ground-glass" THEN
        IF size_mm < Mm(30) THEN CATEGORY_2
        ELSE (IF growth_detected THEN CATEGORY_4A ELSE CATEGORY_3)
    ELSE IF nodule_type = "part-solid" THEN
        IF size_mm < Mm(6) THEN CATEGORY_2
        ELSE (IF growth_detected THEN CATEGORY_4B ELSE CATEGORY_4A)
    ELSE CATEGORY_3

classify_lung_rads(size_mm, nodule_type, growth_detected, vdt_days) ==
    IF nodule_type = "solid" THEN
        IF size_mm < Mm(6) THEN CATEGORY_2
        ELSE IF size_mm < Mm(8) THEN
            (IF growth_detected THEN CATEGORY_4A ELSE CATEGORY_3)
        ELSE IF size_mm < Mm(15) THEN
            (IF growth_detected /\ Truthy(vdt_days)
                /\ RatLt(vdt_days[1], VDT_HIGH_RISK)
             THEN CATEGORY_4B ELSE CATEGORY_4A)
        ELSE CATEGORY_4B
    ELSE IF nodule_type = "ground-glass" THEN
        IF size_mm < Mm(30) THEN CATEGORY_2
        ELSE (IF growth_detected THEN CATEGORY_4A ELSE CATEGORY_3)
    ELSE IF nodule_type = "part-solid" THEN
        IF size_mm < Mm(6) THEN CATEGORY_2
        ELSE (IF growth_detected THEN CATEGORY_4B ELSE CATEGORY_4A)
    ELSE CATEGORY_3

----------------------------------------------------------------------------
(* determine_trajectory *)

\* Mutant: the STABLE band left out
trajectory_without_stable(size_change_percent, volume_change_percent) ==
    IF RatGt(volume_change_percent, 25) THEN WORSENING
    ELSE IF RatLt(volume_change_percent, 0 - 25) THEN IMPROVING
    ELSE INDETERMINATE

\* Mutant: a change of exactly 25 percent taken as growth
trajectory_25_worsening(size_change_percent, volume_change_percent) ==
    IF ~RatLt(volume_change_percent, 25) THEN WORSENING
    ELSE IF RatLt(volume_change_percent, 0 - 25) THEN IMPROVING
    ELSE IF RatLe(RatAbs(volume_change_percent), 25) THEN STABLE
    ELSE INDETERMINATE

determine_trajectory(size_change_percent, volume_change_percent) ==
    IF RatGt(volume_change_percent, 25) THEN WORSENING
    ELSE IF RatLt(volume_change_percent, 0 - 25) THEN IMPROVING
    ELSE IF RatLe(RatAbs(volume_change_percent), 25) THEN STABLE
    ELSE INDETERMINATE

----------------------------------------------------------------------------
(* NoduleMeasurement *)

\* Ticks to the calendar day: a datetime carries a time of day.
TicksPerDay == 2

\* The dataclass constructor: it stores its arguments and checks nothing.
NoduleMeasurement(date, size_mm, location, nodule_type, volume_mm3) ==
    [date |-> date, size_mm |-> size_mm, location |-> location,
     nodule_type |-> nodule_type, volume_mm3 |-> volume_mm3]

\* Mutant: the diameter truncated to whole millimetres before cubing
sphere_volume_whole_mm(size_mm) ==
    (((size_mm \div 10) * 10) * ((size_mm \div 10) * 10)
        * ((size_mm \div 10) * 10) * 71) \div 1356

\* (4/3) * pi * (size/2)^3 in hundredths of mm^3, size in tenths of mm:
\* pi * s^3 / 60, with pi taken as 355/113.
SphereVolume(size_mm) == (size_mm * size_mm * size_mm * 71) \div 1356

\* volume_mm3 is given in whole mm^3; `if self.volume_mm3` is false for
\* None and for 0.
volume_calculated(m) ==
    IF m.volume_mm3 # << >> /\ m.volume_mm3[1] # 0
    THEN 100 * m.volume_mm3[1]
    ELSE SphereVolume(m.size_mm)

\* Mutant: the difference taken the other way round
days_between_reversed(earlier, later) == (earlier - later) \div TicksPerDay

\* (later - earlier).days for later >= earlier
DaysBetween(earlier, later) == (later - earlier) \div TicksPerDay

\* strftime("%Y-%m-%d"): the calendar day, the time of day dropped
StrfDate(date) == date \div TicksPerDay

----------------------------------------------------------------------------
(* Fixed-point base-2 logarithm standing for math.log *)

LogBits == 14
LogOne == 2 ^ LogBits

\* the largest e with m * 2^e <= n   (n >= m > 0)
RECURSIVE Log2Int(_, _)
Log2Int(n, m) == IF n >= 2 * m THEN 1 + Log2Int(n, 2 * m) ELSE 0

\* the first k fractional bits of r / m, weighted from 2^(k-1)   (0 <= r < m)
RECURSIVE DivBits(_, _, _)
DivBits(r, m, k) ==
    IF k = 0 THEN 0
    ELSE LET r2 == 2 * r
             b == IF r2 >= m THEN 1 ELSE 0
         IN  b * (2 ^ (k - 1)) + DivBits(r2 - b * m, m, k - 1)

\* the first k fractional bits of log2(x / LogOne), LogOne <= x < 2 * LogOne
RECURSIVE LogBitsOf(_, _)
LogBitsOf(x, k) ==
    IF k = 0 THEN 0
    ELSE LET sq == (x * x) \div LogOne
             b == IF sq >= 2 * LogOne THEN 1 ELSE 0
             nx == IF b = 1 THEN sq \div 2 ELSE sq
         IN  b * (2 ^ (k - 1)) + LogBitsOf(nx, k - 1)

\* log2(n / m) * LogOne, rounded down, and at least 1   (n > m > 0)
Log2Fix(n, m) ==
    LET e == Log2Int(n, m)
        base == m * (2 ^ e)
        x == LogOne + DivBits(n - base, base, LogBits)
        l == e * LogOne + LogBitsOf(x, LogBits)
    IN  IF l = 0 THEN 1 ELSE l

----------------------------------------------------------------------------
(* calculate_volume_doubling_time *)

calculate_volume_doubling_time(measurement1, measurement2) ==
    LET swap == measurement2.date < measurement1.date
        m1 == IF swap THEN measurement2 ELSE measurement1
        m2 == IF swap THEN measurement1 ELSE measurement2
        v1 == volume_calculated(m1)
        v2 == volume_calculated(m2)
        days_between == DaysBetween(m1.date, m2.date)
    IN  IF days_between <= 0 THEN None
        ELSE IF v2 <= v1 THEN None
        \* v2 / v1 raises ZeroDivisionError for v1 = 0: caught, None
        ELSE IF v1 = 0 THEN None
        \* math.log raises ValueError for v2 / v1 <= 0: caught, None
        ELSE IF v1 < 0 /\ v2 >= 0 THEN None
        \* 0 < v2 / v1 < 1 for v1 < v2 < 0: the logarithm is negative
        ELSE IF v1 < 0
        THEN Some(Rat(0 - days_between * LogOne, Log2Fix(0 - v1, 0 - v2)))
        \* days * ln 2 / ln(v2 / v1) = days / log2(v2 / v1)
        ELSE Some(Rat(days_between * LogOne, Log2Fix(v2, v1)))

----------------------------------------------------------------------------
(* Number formatting in the generated text *)

\* n / d rounded to the nearest integer, ties to even   (n >= 0, d > 0)
RoundHalfEven(n, d) ==
    LET q == n \div d
        r == n % d
    IN  IF 2 * r > d THEN q + 1
        ELSE IF 2 * r < d THEN q
        ELSE IF q % 2 = 0 THEN q ELSE q + 1

\* f"{x:.1f}" of a non-negative x: the number of tenths printed
Fmt1(q) == RoundHalfEven(10 * q.n, q.d)

\* f"{x:+.1f}": the sign printed and the tenths
FmtSigned1(q) == <<IF q.n < 0 THEN "-" ELSE "+", Fmt1(RatAbs(q))>>

\* f"{x:.0f}" of a non-negative x
Fmt0(q) == RoundHalfEven(q.n, q.d)

----------------------------------------------------------------------------
(* Report generation.  A text is the tuple of its template and of the     *)
(* values formatted into it; a joined text is the sequence of its parts.  *)

VdtText(analysis) ==
    IF Truthy(analysis.volume_doubling_time_days)
    THEN <<"Volume doubling time is approximately",
           Fmt0(analysis.volume_doubling_time_days[1]), "days.">>
    ELSE << >>

generate_change_summary(prior, current, analysis) ==
    LET location == IF current.location # "" THEN current.location
                    ELSE "the identified nodule"
    IN  IF analysis.trajectory = STABLE THEN
            <<"remains stable", current.nodule_type, location,
              current.size_mm, prior.size_mm,
              FmtSigned1(analysis.size_change_percent),
              analysis.days_between>>
        ELSE IF analysis.trajectory = IMPROVING THEN
            <<"has decreased in size", current.nodule_type, location,
              current.size_mm, prior.size_mm,
              Fmt1(RatAbs(analysis.size_change_percent)),
              analysis.days_between>>
        ELSE IF analysis.trajectory = WORSENING THEN
            <<"has demonstrated interval growth", current.nodule_type,
              location, current.size_mm, prior.size_mm,
              FmtSigned1(analysis.size_change_percent),
              FmtSigned1(analysis.volume_change_percent),
              analysis.days_between, VdtText(analysis)>>
        ELSE <<"Change assessment indeterminate.", current.size_mm,
               prior.size_mm>>

RiskDescription(risk_level) ==
    CASE risk_level = LOW -> <<"Overall risk assessment: LOW.">>
      [] risk_level = INTERMEDIATE ->
            <<"Overall risk assessment: INTERMEDIATE.">>
      [] risk_level = HIGH ->
            <<"Overall risk assessment: HIGH - further evaluation recommended.">>
      [] risk_level = VERY_HIGH ->
            <<"Overall risk assessment: VERY HIGH - urgent evaluation recommended.">>
      [] OTHER -> <<"">>

\* The statement on the doubling time, if any (l.363-384)
VdtInterpretation(analysis) ==
    LET vdt == analysis.volume_doubling_time_days
    IN  IF ~Truthy(vdt) THEN << >>
        ELSE IF RatLt(vdt[1], 200) THEN
            << <<"vdt: rapid growth, highly suggestive of malignancy",
                 Fmt0(vdt[1])>> >>
        ELSE IF RatLt(vdt[1], VDT_HIGH_RISK) THEN
            << <<"vdt: (<400 days) raises concern for malignancy",
                 Fmt0(vdt[1])>> >>
        ELSE IF RatLt(vdt[1], VDT_INTERMEDIATE) THEN
            << <<"vdt: suggests intermediate growth rate",
                 Fmt0(vdt[1])>> >>
        ELSE
            << <<"vdt: slower growth, continued surveillance warranted",
                 Fmt0(vdt[1])>> >>

\* The statements on the Lung-RADS category (l.387-395)
RadsInterpretation(analysis) ==
    IF analysis.lung_rads_current = None THEN << >>
    ELSE << <<"Current Lung-RADS category:",
              analysis.lung_rads_current[1]>> >>
         \o (IF analysis.lung_rads_prior # None
                /\ analysis.lung_rads_prior # analysis.lung_rads_current
             THEN << <<"Category has changed from",
                       analysis.lung_rads_prior[1], "to",
                       analysis.lung_rads_current[1]>> >>
             ELSE << >>)

\* Mutant: the risk statement ahead of the category statements
interpretation_risk_before_category(analysis) ==
    VdtInterpretation(analysis)
        \o <<RiskDescription(analysis.risk_level)>>
        \o RadsInterpretation(analysis)

generate_clinical_interpretation(analysis) ==
    VdtInterpretation(analysis)
        \o RadsInterpretation(analysis)
        \o <<RiskDescription(analysis.risk_level)>>

REC_URGENT == "Urgent tissue sampling or PET-CT recommended."
REC_TUMOR_BOARD == "Consider multidisciplinary tumor board discussion."
REC_PET == "Consider PET-CT for further characterization."
REC_SAMPLING == "If PET positive, tissue sampling recommended."
REC_SHORT_INTERVAL ==
    "Short-interval follow-up CT if PET not performed (3 months)."
REC_6_MONTHS == "Continue surveillance with follow-up CT in 6 months."
REC_3_MONTHS == "Consider follow-up CT in 3 months to assess trajectory."
REC_ANNUAL == "Continue annual low-dose CT screening."
REC_12_MONTHS == "Likely benign etiology. Follow-up CT in 12 months."
REC_DISCLAIMER ==
    "Clinical correlation recommended. This AI-generated analysis should be verified by a qualified radiologist."

\* Mutant: the follow-up intervals of INTERMEDIATE risk exchanged
TierRecommendations_intervals_swapped(analysis) ==
    IF analysis.risk_level = VERY_HIGH THEN
        <<REC_URGENT, REC_TUMOR_BOARD>>
    ELSE IF analysis.risk_level = HIGH THEN
        <<REC_PET, REC_SAMPLING, REC_SHORT_INTERVAL>>
    ELSE IF analysis.risk_level = INTERMEDIATE THEN
        (IF analysis.trajectory = STABLE THEN <<REC_3_MONTHS>>
         ELSE <<REC_6_MONTHS>>)
    ELSE
        (IF analysis.trajectory = STABLE THEN <<REC_ANNUAL>>
         ELSE IF analysis.trajectory = IMPROVING THEN <<REC_12_MONTHS>>
         ELSE << >>)

\* The entries chosen by risk tier, before the disclaimer
TierRecommendations(analysis) ==
    IF analysis.risk_level = VERY_HIGH THEN
        <<REC_URGENT, REC_TUMOR_BOARD>>
    ELSE IF analysis.risk_level = HIGH THEN
        <<REC_PET, REC_SAMPLING, REC_SHORT_INTERVAL>>
    ELSE IF analysis.risk_level = INTERMEDIATE THEN
        (IF analysis.trajectory = STABLE THEN <<REC_6_MONTHS>>
         ELSE <<REC_3_MONTHS>>)
    ELSE
        (IF analysis.trajectory = STABLE THEN <<REC_ANNUAL>>
         ELSE IF analysis.trajectory = IMPROVING THEN <<REC_12_MONTHS>>
         ELSE << >>)

\* Mutant: the disclaimer added only where no entry was chosen
generate_recommendations_disclaimer_if_empty(analysis) ==
    IF TierRecommendations(analysis) = << >> THEN <<REC_DISCLAIMER>>
    ELSE TierRecommendations(analysis)

generate_recommendations(analysis) ==
    TierRecommendations(analysis) \o <<REC_DISCLAIMER>>

DifferentialDiagnosis(diagnosis, prior_probability, current_probability, change_rationale) ==
    [diagnosis |-> diagnosis, prior_probability |-> prior_probability,
     current_probability |-> current_probability,
     change_rationale |-> change_rationale]

\* Mutant: stability leaves the malignancy estimate where it was
differentials_stable_unchanged(analysis) ==
    IF analysis.trajectory = WORSENING THEN
        <<DifferentialDiagnosis("Primary lung malignancy", "moderate",
              "high", "Interval growth with VDT consistent with malignancy"),
          DifferentialDiagnosis("Inflammatory/infectious", "moderate",
              "low", "Would expect stability or resolution if infectious"),
          DifferentialDiagnosis("Slow-growing carcinoid", "low",
              "moderate", "Cannot exclude based on growth pattern")>>
    ELSE IF analysis.trajectory = STABLE THEN
        <<DifferentialDiagnosis("Benign granuloma", "moderate", "high",
              "Stability over time favors benign etiology"),
          DifferentialDiagnosis("Primary lung malignancy", "moderate",
              "moderate", "Stability decreases concern, though not excluded"),
          DifferentialDiagnosis("Hamartoma", "low", "moderate",
              "Benign tumor typically stable")>>
    ELSE IF analysis.trajectory = IMPROVING THEN
        <<DifferentialDiagnosis("Resolving infection", "moderate", "high",
              "Interval decrease consistent with resolving process"),
          DifferentialDiagnosis("Primary lung malignancy", "moderate",
              "very_low",
              "Spontaneous regression of malignancy extremely rare")>>
    ELSE << >>

generate_differential_evolution(analysis) ==
    IF analysis.trajectory = WORSENING THEN
        <<DifferentialDiagnosis("Primary lung malignancy", "moderate",
              "high", "Interval growth with VDT consistent with malignancy"),
          DifferentialDiagnosis("Inflammatory/infectious", "moderate",
              "low", "Would expect stability or resolution if infectious"),
          DifferentialDiagnosis("Slow-growing carcinoid", "low",
              "moderate", "Cannot exclude based on growth pattern")>>
    ELSE IF analysis.trajectory = STABLE THEN
        <<DifferentialDiagnosis("Benign granuloma", "moderate", "high",
              "Stability over time favors benign etiology"),
          DifferentialDiagnosis("Primary lung malignancy", "moderate",
              "low", "Stability decreases concern, though not excluded"),
          DifferentialDiagnosis("Hamartoma", "low", "moderate",
              "Benign tumor typically stable")>>
    ELSE IF analysis.trajectory = IMPROVING THEN
        <<DifferentialDiagnosis("Resolving infection", "moderate", "high",
              "Interval decrease consistent with resolving process"),
          DifferentialDiagnosis("Primary lung malignancy", "moderate",
              "very_low",
              "Spontaneous regression of malignancy extremely rare")>>
    ELSE << >>

generate_comparison_paragraph(prior, current, analysis) ==
    LET prior_date == StrfDate(prior.date)
        rads(default) == IF analysis.lung_rads_current # None
                         THEN analysis.lung_rads_current[1] ELSE default
    IN  IF analysis.trajectory = STABLE THEN
            <<"COMPARISON: CT Chest dated", prior_date, "remains stable",
              prior.size_mm, prior.nodule_type, current.location,
              current.size_mm, FmtSigned1(analysis.size_change_percent),
              analysis.days_between, rads("guidelines")>>
        ELSE IF analysis.trajectory = WORSENING THEN
            <<"COMPARISON: CT Chest dated", prior_date,
              "has demonstrated interval growth",
              prior.size_mm, prior.nodule_type, current.location,
              current.size_mm, FmtSigned1(analysis.size_change_percent),
              FmtSigned1(analysis.volume_change_percent),
              analysis.days_between, VdtText(analysis),
              IF analysis.recommendations # << >>
              THEN analysis.recommendations[1] ELSE "further evaluation",
              rads("4B")>>
        ELSE IF analysis.trajectory = IMPROVING THEN
            <<"COMPARISON: CT Chest dated", prior_date,
              "has decreased in size",
              prior.size_mm, prior.nodule_type, current.location,
              current.size_mm, Fmt1(RatAbs(analysis.size_change_percent)),
              analysis.days_between>>
        ELSE <<"COMPARISON: CT Chest dated", prior_date,
               "Indeterminate change. Clinical correlation recommended.">>

generate_patient_summary(analysis, current) ==
    IF analysis.trajectory = STABLE THEN
        <<"a small spot that has not changed", current.size_mm>>
    ELSE IF analysis.trajectory = WORSENING THEN
        <<"a spot that has grown",
          current.size_mm - analysis.size_change_mm, current.size_mm>>
    ELSE IF analysis.trajectory = IMPROVING THEN
        <<"a spot that has gotten smaller", current.size_mm>>
    ELSE <<"Please discuss your scan results with your healthcare provider.">>

----------------------------------------------------------------------------
(* analyze_longitudinal_change *)

\* The body of analyze_longitudinal_change once the pair is ordered
\* Mutant: the prior category classified with the growth and the doubling
\* time of the interval
classify_prior_with_growth(prior, growth_detected, vdt) ==
    classify_lung_rads(prior.size_mm, prior.nodule_type, growth_detected, vdt)

\* lung_rads_prior (l.640-645): the growth and the doubling time of the
\* interval are at hand and are not passed; the literals False and None are
ClassifyPrior(prior, growth_detected, vdt) ==
    classify_lung_rads(prior.size_mm, prior.nodule_type, FALSE, None)

AnalyzeOrdered(prior, current) ==
    LET size_change_mm == current.size_mm - prior.size_mm
        size_change_percent ==
            IF prior.size_mm > 0
            THEN Rat(size_change_mm * 100, prior.size_mm) ELSE Rat(0, 1)
        v_prior == volume_calculated(prior)
        v_current == volume_calculated(current)
        volume_change_percent ==
            IF v_prior > 0
            THEN Rat((v_current - v_prior) * 100, v_prior) ELSE Rat(0, 1)
        days_between == DaysBetween(prior.date, current.date)
        vdt == calculate_volume_doubling_time(prior, current)
        trajectory ==
            determine_trajectory(size_change_percent, volume_change_percent)
        growth_detected == trajectory = WORSENING
        lung_rads_prior == ClassifyPrior(prior, growth_detected, vdt)
        lung_rads_current ==
            classify_lung_rads(current.size_mm, current.nodule_type,
                               growth_detected, vdt)
        risk_level == assess_risk_level(vdt, lung_rads_current, trajectory)
        analysis0 ==
            [size_change_mm |-> size_change_mm,
             size_change_percent |-> size_change_percent,
             volume_change_percent |-> volume_change_percent,
             days_between |-> days_between,
             volume_doubling_time_days |-> vdt,
             trajectory |-> trajectory,
             lung_rads_current |-> Some(lung_rads_current),
             lung_rads_prior |-> Some(lung_rads_prior),
             risk_level |-> risk_level,
             change_summary |-> << >>,
             clinical_interpretation |-> << >>,
             recommendations |-> << >>,
             differential_evolution |-> << >>,
             comparison_paragraph |-> << >>,
             patient_summary |-> << >>]
    \* The generated content is assigned field by field, each generator
    \* reading the analysis as the assignments before it left it; a1..a4
    \* name these intermediate values of `analysis`.
    IN  CHOOSE analysis \in
          {[a4 EXCEPT
              !.patient_summary = generate_patient_summary(a4, current)] :
           a4 \in
             {[a3 EXCEPT
                 !.comparison_paragraph =
                      generate_comparison_paragraph(prior, current, a3)] :
              a3 \in
                {[a2 EXCEPT
                    !.recommendations = generate_recommendations(a2)] :
                 a2 \in
                   {[a1 EXCEPT
                       !.clinical_interpretation =
                            generate_clinical_interpretation(a1)] :
                    a1 \in
                      {[a0 EXCEPT
                          !.change_summary =
                               generate_change_summary(prior, current, a0)] :
                       a0 \in {analysis0}}}}}} : TRUE

\* Mutant: a result that carries over from the calls made before
analyze_counting_calls(prior_measurement, current_measurement) ==
    IF current_measurement.date < prior_measurement.date
    THEN [AnalyzeOrdered(current_measurement, prior_measurement)
            EXCEPT !.days_between = @ + Len(rets)]
    ELSE [AnalyzeOrdered(prior_measurement, current_measurement)
            EXCEPT !.days_between = @ + Len(rets)]

\* Mutant: the pair analysed in the caller's order
analyze_without_reorder(prior_measurement, current_measurement) ==
    AnalyzeOrdered(prior_measurement, current_measurement)

analyze_longitudinal_change(prior_measurement, current_measurement) ==
    IF current_measurement.date < prior_measurement.date
    THEN AnalyzeOrdered(current_measurement, prior_measurement)
    ELSE AnalyzeOrdered(prior_measurement, current_measurement)

----------------------------------------------------------------------------
(* create_longitudinal_report *)

\* A call either returns a value or raises.
Return(v) == [ok |-> TRUE, value |-> v]
Raise(exc) == [ok |-> FALSE, exc |-> exc]

\* Mutant: the series ordered latest first
insert_latest_first(sorted, m) ==
    LET k == Cardinality({i \in 1..Len(sorted) : sorted[i].date >= m.date})
    IN  SubSeq(sorted, 1, k) \o <<m>> \o SubSeq(sorted, k + 1, Len(sorted))

\* sorted(measurements, key=lambda m: m.date): a stable sort of a copy
InsertByDate(sorted, m) ==
    LET k == Cardinality({i \in 1..Len(sorted) : sorted[i].date <= m.date})
    IN  SubSeq(sorted, 1, k) \o <<m>> \o SubSeq(sorted, k + 1, Len(sorted))

\* Mutant: the series left in the caller's order
sorted_not_sorting(ms) == ms

RECURSIVE SortedByDate(_)
SortedByDate(ms) ==
    IF Len(ms) = 0 THEN << >>
    ELSE InsertByDate(SortedByDate(SubSeq(ms, 1, Len(ms) - 1)), ms[Len(ms)])

\* f"- {date_str}: {m.size_mm}mm {m.nodule_type} nodule"
TimelineLine(m) ==
    <<"- ", StrfDate(m.date), ": ", m.size_mm, "mm ", m.nodule_type,
      " nodule">>

\* Mutant: the timeline of the analysed pair only
timeline_of_latest_pair(ms) ==
    << <<"TIMELINE:">>, TimelineLine(ms[Len(ms) - 1]),
       TimelineLine(ms[Len(ms)]) >>

\* The lines joined by "\n": the sequence of the lines
TimelineSummary(ms) ==
    << <<"TIMELINE:">> >> \o [i \in 1..Len(ms) |-> TimelineLine(ms[i])]

\* The report built once the series is known to be long enough
\* The fields the constructor call names, generated_at from datetime.now and
\* the two defaults of the dataclass
LongitudinalReport(patient_context, measurements, analysis, differentials, timeline_summary, now) ==
    [patient_context |-> patient_context,
     measurements |-> measurements,
     analysis |-> analysis,
     differentials |-> differentials,
     timeline_summary |-> timeline_summary,
     generated_at |-> now,
     model_version |-> "radassist-pro-v1",
     disclaimer |->
         "AI-generated analysis. For research purposes only. Not for clinical use."]

BuildReport(measurements, clinical_context, now) ==
    LET sorted == SortedByDate(measurements)
        prior == sorted[Len(sorted) - 1]
        current == sorted[Len(sorted)]
    IN  CHOOSE report \in
          {LongitudinalReport(clinical_context, sorted, analysis,
                              generate_differential_evolution(analysis),
                              TimelineSummary(sorted), now) :
           analysis \in {analyze_longitudinal_change(prior, current)}} : TRUE

InsufficientData ==
    Raise("ValueError: At least 2 measurements required for longitudinal analysis")

\* Mutant: two measurements refused as well
create_report_needs_three(measurements, clinical_context, now) ==
    IF Len(measurements) <= 2 THEN InsufficientData
    ELSE Return(BuildReport(measurements, clinical_context, now))

create_longitudinal_report(measurements, clinical_context, now) ==
    IF Len(measurements) < 2 THEN InsufficientData
    ELSE Return(BuildReport(measurements, clinical_context, now))

\* Mutant: measurements.sort(key=...) on the list that was handed in
sort_in_place(measurements) == SortedByDate(measurements)

\* The caller's list once create_longitudinal_report has returned or raised:
\* sorted() builds a new list and the local name is bound to it; no statement
\* appends to, removes from or reorders the list handed in, and none assigns
\* to a field of a measurement.
MeasurementsLeft(measurements) == measurements

\* The caller's two measurements once analyze_longitudinal_change has
\* returned: the exchange of the two local names assigns to no object, and
\* the rest of the body only reads their fields.
ArgumentsLeft(prior_measurement, current_measurement) ==
    <<prior_measurement, current_measurement>>

----------------------------------------------------------------------------
(* ImageAnalysisPipeline.analyze_with_manual_measurements *)

\* m.get(key, default) on a dict whose entry is << >> when the key is absent
Get(entry, default) == IF entry = << >> THEN default ELSE entry[1]

ManualMeasurement(m) ==
    NoduleMeasurement(m.date, Get(m.size_mm, 0), Get(m.location, "unknown"),
                      Get(m.nodule_type, "solid"), None)

analyze_with_manual_measurements(measurements, clinical_context, now) ==
    LET nodule_measurements ==
            SortedByDate([i \in 1..Len(measurements) |->
                             ManualMeasurement(measurements[i])])
    IN  CHOOSE result \in
          {IF ~created.ok THEN created
           ELSE Return([detection_results |-> << >>,
                        longitudinal_report |-> Some(created.value),
                        differentials |->
                            generate_differential_evolution(
                                created.value.analysis),
                        nodule_count |-> Len(nodule_measurements),
                        scans_processed |-> Len(nodule_measurements),
                        warnings |-> << >>,
                        errors |-> << >>]) :
           created \in {create_longitudinal_report(nodule_measurements,
                                                    clinical_context, now)}} :
          TRUE

----------------------------------------------------------------------------
(* ImageAnalysisPipeline.analyze_longitudinal.  What the detector finds   *)
(* in a scan is an input: a scan is its date and the nodules detected in  *)
(* it, in the order the detector lists them.                              *)

\* AnalysisPipelineConfig.min_nodule_size_mm = 3.0
min_nodule_size_mm == Mm(3)

DetectedNodule(location, nodule_type, size_mm) ==
    [location |-> location, nodule_type |-> nodule_type, size_mm |-> size_mm,
     volume_mm3 |-> None]

\* str.lower() of the locations and of the target locations in use
Lower(s) ==
    CASE s = "Left Lower Lobe" -> "left lower lobe"
      [] s = "LEFT" -> "left"
      [] OTHER -> s

\* `sub in s` for the lower-case strings in use
Contains(sub, s) ==
    \/ sub = s
    \/ sub = ""
    \/ <<sub, s>> \in {<<"upper", "right upper lobe">>,
                       <<"left", "left lower lobe">>}

\* max(nodules, key=lambda n: n.size_mm): the first of the largest
MaxBySize(nodules) ==
    nodules[CHOOSE k \in 1..Len(nodules) :
               /\ \A j \in 1..Len(nodules) :
                      nodules[j].size_mm <= nodules[k].size_mm
               /\ \A j \in 1..(k - 1) :
                      nodules[j].size_mm < nodules[k].size_mm]

MatchesLocation(target, n) == Contains(Lower(target), Lower(n.location))

\* The nodule of a detection that is tracked, None where the loop continues
ChosenNodule(detection, target_location) ==
    IF Len(detection.nodules) = 0 THEN None
    ELSE IF target_location # None /\ target_location[1] # "" THEN
        (IF \E k \in 1..Len(detection.nodules) :
                MatchesLocation(target_location[1], detection.nodules[k])
         THEN Some(MaxBySize(SelectSeq(detection.nodules,
                  LAMBDA n : MatchesLocation(target_location[1], n))))
         ELSE None)
    ELSE Some(MaxBySize(detection.nodules))

\* Mutant: every chosen nodule tracked, whatever its size
extract_measurements_of_any_size(detection_results, target_location) ==
    LET tracked == SelectSeq(detection_results,
                       LAMBDA d : ChosenNodule(d, target_location) # None)
    IN  [i \in 1..Len(tracked) |->
            NoduleMeasurement(tracked[i].date,
                ChosenNodule(tracked[i], target_location)[1].size_mm,
                ChosenNodule(tracked[i], target_location)[1].location,
                ChosenNodule(tracked[i], target_location)[1].nodule_type,
                ChosenNodule(tracked[i], target_location)[1].volume_mm3)]

\* _extract_measurements_for_tracking
extract_measurements_for_tracking(detection_results, target_location) ==
    LET tracked == SelectSeq(detection_results,
                       LAMBDA d :
                          /\ ChosenNodule(d, target_location) # None
                          /\ ChosenNodule(d, target_location)[1].size_mm
                                >= min_nodule_size_mm)
    IN  [i \in 1..Len(tracked) |->
            NoduleMeasurement(tracked[i].date,
                ChosenNodule(tracked[i], target_location)[1].size_mm,
                ChosenNodule(tracked[i], target_location)[1].location,
                ChosenNodule(tracked[i], target_location)[1].nodule_type,
                ChosenNodule(tracked[i], target_location)[1].volume_mm3)]

\* sum(r.nodule_count for r in detection_results)
RECURSIVE NoduleCount(_)
NoduleCount(detection_results) ==
    IF detection_results = << >> THEN 0
    ELSE Len(Head(detection_results).nodules)
            + NoduleCount(Tail(detection_results))

\* The early return on fewer than two measurements
InsufficientResult(detection_results, measurements) ==
    Return([detection_results |-> detection_results,
            longitudinal_report |-> None,
            differentials |-> None,
            nodule_count |-> NoduleCount(detection_results),
            scans_processed |-> Len(detection_results),
            warnings |-> << <<"Insufficient nodule data for longitudinal analysis.",
                              Len(measurements)>> >>,
            errors |-> << >>])

\* The report on the measurements; an error of create_longitudinal_report
\* is not caught
LongitudinalResult(detection_results, measurements, clinical_context, now) ==
    CHOOSE result \in
      {IF ~created.ok THEN created
       ELSE Return([detection_results |-> detection_results,
                    longitudinal_report |-> Some(created.value),
                    differentials |->
                        generate_differential_evolution(
                            created.value.analysis),
                    nodule_count |-> Len(measurements),
                    scans_processed |-> Len(detection_results),
                    warnings |-> << >>,
                    errors |-> << >>]) :
       created \in {create_longitudinal_report(
                        measurements,
                        IF clinical_context = None THEN ""
                        ELSE clinical_context[1], now)}} : TRUE

analyze_longitudinal(scans, clinical_context, nodule_location, now) ==
    CHOOSE result \in
      {IF Len(measurements) < 2
       THEN InsufficientResult(SortedByDate(scans), measurements)
       ELSE LongitudinalResult(SortedByDate(scans), measurements,
                               clinical_context, now) :
       measurements \in {extract_measurements_for_tracking(
                             SortedByDate(scans), nodule_location)}} : TRUE

----------------------------------------------------------------------------
(* PipelineResult *)

\* PipelineResult(detection_results=[], longitudinal_report=...) with the
\* dataclass defaults for the other fields
PipelineResult(longitudinal_report) ==
    [detection_results |-> << >>,
     longitudinal_report |-> longitudinal_report,
     differentials |-> None,
     nodule_count |-> 0,
     scans_processed |-> 0,
     warnings |-> None,
     errors |-> None]

has_longitudinal(result) == result.longitudinal_report # None

\* Mutant: INTERMEDIATE risk counted as requiring action
requires_action_from_intermediate(result) ==
    IF result.longitudinal_report # None
    THEN result.longitudinal_report[1].analysis.risk_level
            \in {INTERMEDIATE, HIGH, VERY_HIGH}
    ELSE FALSE

\* `if self.longitudinal_report:` is true of every report object
requires_action(result) ==
    IF result.longitudinal_report # None
    THEN result.longitudinal_report[1].analysis.risk_level
            \in {HIGH, VERY_HIGH}
    ELSE FALSE

----------------------------------------------------------------------------
(* The inputs the callers draw from *)

\* Longest measurement series handed to a report
MaxSeries == 3

NoduleTypes == {"solid", "ground-glass", "part-solid"}

\* Morphology strings the classifier does not know, such as the detector's
\* "calcified"
OtherTypes == {"calcified", "unknown"}

Dates == {0, 1, 2, 360, 500}

\* Doubling times handed to the classifiers directly: absent, zero, and
\* both sides of 200, 400 and 600 days
VdtValues ==
    {None} \cup {Some(Rat(k, 1)) :
                   k \in {0, 1, 199, 200, 399, 400, 599, 600, 601, 2000}}
           \cup {Some(Rat(399, 2)), Some(Rat(1199, 2))}

\* Sizes in tenths of a millimetre, on both sides of 6, 8, 15 and 30 mm
Sizes == {1, 59, 60, 61, 79, 80, 149, 150, 151, 299, 300, 310}

\* Volume-change percentages on both sides of -25 and 25
Percents ==
    {Rat(n, 100) : n \in {0 - 10000, 0 - 2501, 0 - 2500, 0 - 2499, 0 - 1,
                          0, 1, 2499, 2500, 2501, 30000}}

\* Measurements as they reach the engine.  A size of 0 is what
\* analyze_with_manual_measurements builds from a dict without size_mm, a
\* negative size what it builds from a dict with one; the dataclass takes
\* both.
MeasurementPool ==
    {NoduleMeasurement(d, s, "right upper lobe", "solid", None) :
        d \in Dates, s \in {0, 50, 60, 61, 68, 83, 160}}
    \cup {NoduleMeasurement(d, s, "right upper lobe", t, None) :
        d \in Dates, s \in {50, 68, 300}, t \in NoduleTypes \ {"solid"}}
    \cup {NoduleMeasurement(d, 60, "right upper lobe", "solid", Some(v)) :
        d \in Dates, v \in {0, 100, 125, 126}}
    \cup {NoduleMeasurement(d, 160, "right upper lobe", "solid", Some(v)) :
        d \in Dates, v \in {100, 125}}
    \cup {NoduleMeasurement(d, s, "right upper lobe", "solid", None) :
        d \in Dates, s \in {0 - 60, 0 - 50}}
    \cup {NoduleMeasurement(d, s, "right upper lobe", "calcified", None) :
        d \in Dates, s \in {68, 300}}

Valid(m) == m.size_mm > 0

\* A short pool for whole series
SeriesPool ==
    {NoduleMeasurement(d, s, "right upper lobe", "solid", None) :
        d \in {0, 360}, s \in {60, 83}}
    \cup {NoduleMeasurement(500, 68, "right upper lobe", "part-solid", None),
          NoduleMeasurement(500, 50, "right upper lobe", "solid", Some(100))}

\* Dicts of manually entered measurements; << >> is an absent key
ManualPool ==
    {[date |-> d, size_mm |-> s, location |-> l, nodule_type |-> t] :
        d \in {0, 360}, s \in {None, Some(60), Some(83)},
        l \in {None}, t \in {None, Some("part-solid")}}

Clock == {1000, 1001}

\* ChangeAnalysis(...) with the dataclass defaults for the generated content
ChangeAnalysis(vdt, trajectory, lung_rads_current, risk_level) ==
    [size_change_mm |-> 0,
     size_change_percent |-> Rat(0, 1),
     volume_change_percent |-> Rat(0, 1),
     days_between |-> 0,
     volume_doubling_time_days |-> vdt,
     trajectory |-> trajectory,
     lung_rads_current |-> lung_rads_current,
     lung_rads_prior |-> None,
     risk_level |-> risk_level,
     change_summary |-> << >>,
     clinical_interpretation |-> << >>,
     recommendations |-> << >>,
     differential_evolution |-> << >>,
     comparison_paragraph |-> << >>,
     patient_summary |-> << >>]

----------------------------------------------------------------------------
(* The calls.  args is the sequence of argument tuples of the calls the   *)
(* caller makes, rets the values returned so far.                         *)

Pending == Len(rets) < Len(args)
NextArgs == args[Len(rets) + 1]
Returned(v) ==
    rets' = Append(rets, v) /\ UNCHANGED <<unit, args, frames, users, access_log>>

\* A call returns v and leaves the objects it was handed as `left`
ReturnedLeaving(v, left) ==
    /\ rets' = Append(rets, v)
    /\ args' = [args EXCEPT ![Len(rets) + 1] = left]
    /\ UNCHANGED <<unit, frames, users, access_log>>

InitRisk ==
    /\ unit = "assess_risk_level"
    /\ \E v1 \in VdtValues, v2 \in VdtValues, c \in LungRADSCategory,
          t \in ChangeTrajectory :
          args = << <<v1, c, t>>, <<v2, c, t>> >>
    /\ rets = << >>
    /\ frames = << >>
    /\ users = << >>
    /\ access_log = << >>

AssessRisk ==
    /\ unit = "assess_risk_level"
    /\ Pending
    /\ Returned(assess_risk_level(NextArgs[1], NextArgs[2], NextArgs[3]))

InitLungRads ==
    /\ unit = "classify_lung_rads"
    /\ \E s \in Sizes, t \in NoduleTypes \cup OtherTypes,
          g \in BOOLEAN, v \in VdtValues :
          args = << <<s, t, g, v>> >>
    /\ rets = << >>
    /\ frames = << >>
    /\ users = << >>
    /\ access_log = << >>

ClassifyLungRads ==
    /\ unit = "classify_lung_rads"
    /\ Pending
    /\ Returned(classify_lung_rads(NextArgs[1], NextArgs[2], NextArgs[3],
                                   NextArgs[4]))

\* Two classifications of one morphology and one doubling time, the second
\* of a nodule at least as large and with growth detected if the first had
InitLungRadsPair ==
    /\ unit = "classify_lung_rads"
    /\ \E s1 \in Sizes, s2 \in Sizes, t \in NoduleTypes \cup OtherTypes,
          g1 \in BOOLEAN, g2 \in BOOLEAN, v \in VdtValues :
          /\ s1 <= s2
          /\ g1 => g2
          /\ args = << <<s1, t, g1, v>>, <<s2, t, g2, v>> >>
    /\ rets = << >>
    /\ frames = << >>
    /\ users = << >>
    /\ access_log = << >>

InitTrajectory ==
    /\ unit = "determine_trajectory"
    /\ \E sp \in {Rat(0, 1), Rat(50, 1)}, vp \in Percents :
          args = << <<sp, vp>> >>
    /\ rets = << >>
    /\ frames = << >>
    /\ users = << >>
    /\ access_log = << >>

DetermineTrajectory ==
    /\ unit = "determine_trajectory"
    /\ Pending
    /\ Returned(determine_trajectory(NextArgs[1], NextArgs[2]))

InitVDT ==
    /\ unit = "calculate_volume_doubling_time"
    /\ \E a \in MeasurementPool, b \in MeasurementPool :
          args = << <<a, b>> >>
    /\ rets = << >>
    /\ frames = << >>
    /\ users = << >>
    /\ access_log = << >>

CalculateVDT ==
    /\ unit = "calculate_volume_doubling_time"
    /\ Pending
    /\ Returned(calculate_volume_doubling_time(NextArgs[1], NextArgs[2]))

\* Two calls that share the prior measurement and the elapsed time and differ
\* in the current measurement only.
InitVDTPair ==
    /\ unit = "calculate_volume_doubling_time"
    /\ \E p \in {m \in MeasurementPool : m.date = 0}, d \in {2, 360} :
          \E c1 \in {m \in MeasurementPool : m.date = d},
             c2 \in {m \in MeasurementPool : m.date = d} :
             args = << <<p, c1>>, <<p, c2>> >>
    /\ rets = << >>
    /\ frames = << >>
    /\ users = << >>
    /\ access_log = << >>

InitRecommendations ==
    /\ unit = "generate_recommendations"
    /\ \E v \in {None, Some(Rat(150, 1)), Some(Rat(700, 1))},
          t \in ChangeTrajectory,
          c \in {None} \cup {Some(x) : x \in LungRADSCategory},
          r \in RiskLevel :
          args = << <<ChangeAnalysis(v, t, c, r)>> >>
    /\ rets = << >>
    /\ frames = << >>
    /\ users = << >>
    /\ access_log = << >>

GenerateRecommendations ==
    /\ unit = "generate_recommendations"
    /\ Pending
    /\ Returned(generate_recommendations(NextArgs[1]))

\* Analyses as a caller may build them: every field but the four metrics has a
\* default, the two categories None
InitInterpretation ==
    /\ unit = "generate_clinical_interpretation"
    /\ \E v \in VdtValues,
          c \in {None} \cup {Some(x) : x \in LungRADSCategory},
          p \in {None} \cup {Some(x) : x \in LungRADSCategory},
          r \in RiskLevel :
          args = << <<[ChangeAnalysis(v, STABLE, c, r)
                          EXCEPT !.lung_rads_prior = p]>> >>
    /\ rets = << >>
    /\ frames = << >>
    /\ users = << >>
    /\ access_log = << >>

GenerateInterpretation ==
    /\ unit = "generate_clinical_interpretation"
    /\ Pending
    /\ Returned(generate_clinical_interpretation(NextArgs[1]))

\* Two analyses of one trajectory, differing in their other fields
InitDifferentials ==
    /\ unit = "generate_differential_evolution"
    /\ \E v \in {None, Some(Rat(150, 1)), Some(Rat(700, 1))},
          t \in ChangeTrajectory,
          c \in {None} \cup {Some(x) : x \in LungRADSCategory},
          r \in RiskLevel, r2 \in RiskLevel :
          args = << <<ChangeAnalysis(v, t, c, r)>>,
                    <<ChangeAnalysis(None, t, None, r2)>> >>
    /\ rets = << >>
    /\ frames = << >>
    /\ users = << >>
    /\ access_log = << >>

GenerateDifferentials ==
    /\ unit = "generate_differential_evolution"
    /\ Pending
    /\ Returned(generate_differential_evolution(NextArgs[1]))

\* The same pair analysed in both argument orders
InitAnalyze ==
    /\ unit = "analyze_longitudinal_change"
    /\ \E a \in MeasurementPool, b \in MeasurementPool :
          args = << <<a, b>>, <<b, a>> >>
    /\ rets = << >>
    /\ frames = << >>
    /\ users = << >>
    /\ access_log = << >>

\* One pair analysed, then another, then the first again
InitRepeat ==
    /\ unit = "analyze_longitudinal_change"
    /\ \E a \in SeriesPool, b \in SeriesPool, c \in SeriesPool,
          d \in SeriesPool :
          args = << <<a, b>>, <<c, d>>, <<a, b>> >>
    /\ rets = << >>
    /\ frames = << >>
    /\ users = << >>
    /\ access_log = << >>

AnalyzeChange ==
    /\ unit = "analyze_longitudinal_change"
    /\ Pending
    /\ ReturnedLeaving(analyze_longitudinal_change(NextArgs[1], NextArgs[2]),
                       ArgumentsLeft(NextArgs[1], NextArgs[2]))

\* The series with its entries at i and j exchanged
Exchanged(ms, i, j) ==
    [k \in 1..Len(ms) |-> IF k = i THEN ms[j] ELSE IF k = j THEN ms[i]
                                                 ELSE ms[k]]

\* A series, then the same series with two of its entries exchanged
InitReport ==
    /\ unit = "create_longitudinal_report"
    /\ \E k \in 0..MaxSeries : \E ms \in [1..k -> SeriesPool] :
          \E i \in 1..(IF k = 0 THEN 1 ELSE k) : \E j \in i..(IF k = 0 THEN 1 ELSE k) :
              args = << <<ms, "58-year-old female, former smoker">>,
                        <<Exchanged(ms, i, j),
                          "58-year-old female, former smoker">> >>
    /\ rets = << >>
    /\ frames = << >>
    /\ users = << >>
    /\ access_log = << >>

CreateReport ==
    /\ unit = "create_longitudinal_report"
    /\ Pending
    /\ \E now \in Clock :
          ReturnedLeaving(
              create_longitudinal_report(NextArgs[1], NextArgs[2], now),
              <<MeasurementsLeft(NextArgs[1]), NextArgs[2]>>)

\* Two invocations of create_longitudinal_report under way at once, each on
\* its own series; frames[t] holds the local names of invocation t and pc
\* the statement it executes next.
Invocations == {1, 2}

NewFrame ==
    [pc |-> "check", measurements |-> None, analysis |-> None,
     differentials |-> None, timeline_lines |-> None, result |-> None]

\* Measurements of the first and of the second invocation
FirstSeriesPool ==
    {NoduleMeasurement(0, 60, "right upper lobe", "solid", None),
     NoduleMeasurement(360, 83, "right upper lobe", "solid", None)}

SecondSeriesPool ==
    {NoduleMeasurement(0, 83, "right upper lobe", "solid", None),
     NoduleMeasurement(500, 68, "right upper lobe", "part-solid", None)}

InitConcurrent ==
    /\ unit = "create_longitudinal_report (concurrent)"
    /\ \E k1 \in 0..MaxSeries, k2 \in 0..(MaxSeries - 1) :
          \E ms1 \in [1..k1 -> FirstSeriesPool],
             ms2 \in [1..k2 -> SecondSeriesPool] :
             args = << <<ms1, "58-year-old female, former smoker">>,
                       <<ms2, "67-year-old male">> >>
    /\ rets = << >>
    /\ frames = [t \in Invocations |-> NewFrame]
    /\ users = << >>
    /\ access_log = << >>

\* Mutant: names kept where the first invocation keeps them (module level)
frame_of_first_invocation(fs, t) == fs[1]

\* The names a statement of invocation t reads: the locals of its own call.
\* The function's body names no module-level variable other than the
\* functions it calls, and those read their parameters only.
Local(fs, t) == fs[t]

At(t, pc) == unit = "create_longitudinal_report (concurrent)" /\ Local(frames, t).pc = pc

Assign(t, frame) ==
    /\ frames' = [frames EXCEPT ![t] = frame]
    /\ UNCHANGED <<unit, args, rets, users, access_log>>

\* if len(measurements) < 2: raise ValueError(...)
CheckLength(t) ==
    /\ At(t, "check")
    /\ IF Len(args[t][1]) < 2
       THEN Assign(t, [Local(frames, t) EXCEPT !.pc = "done",
                                               !.result = Some(InsufficientData)])
       ELSE Assign(t, [Local(frames, t) EXCEPT !.pc = "sort"])

\* measurements = sorted(measurements, key=lambda m: m.date)
SortCopy(t) ==
    /\ At(t, "sort")
    /\ Assign(t, [Local(frames, t) EXCEPT
                    !.pc = "analyze",
                    !.measurements = Some(SortedByDate(args[t][1]))])

\* analysis = analyze_longitudinal_change(measurements[-2], measurements[-1])
AnalyzeLatest(t) ==
    /\ At(t, "analyze")
    /\ LET ms == Local(frames, t).measurements[1]
       IN  Assign(t, [Local(frames, t) EXCEPT
                        !.pc = "differentials",
                        !.analysis = Some(analyze_longitudinal_change(
                                              ms[Len(ms) - 1], ms[Len(ms)]))])

\* differentials = generate_differential_evolution(analysis)
Differentials(t) ==
    /\ At(t, "differentials")
    /\ Assign(t, [Local(frames, t) EXCEPT
                    !.pc = "timeline",
                    !.differentials = Some(generate_differential_evolution(
                                               Local(frames, t).analysis[1]))])

\* timeline_lines = ["TIMELINE:"]
TimelineStart(t) ==
    /\ At(t, "timeline")
    /\ Assign(t, [Local(frames, t) EXCEPT
                    !.pc = "line",
                    !.timeline_lines = Some(<< <<"TIMELINE:">> >>)])

\* One turn of `for m in measurements: timeline_lines.append(...)`, or the
\* end of the loop
TimelineAppend(t) ==
    /\ At(t, "line")
    /\ LET ms == Local(frames, t).measurements[1]
           lines == Local(frames, t).timeline_lines[1]
       IN  IF Len(lines) <= Len(ms)
           THEN Assign(t, [Local(frames, t) EXCEPT
                             !.timeline_lines =
                                 Some(Append(lines, TimelineLine(ms[Len(lines)])))])
           ELSE Assign(t, [Local(frames, t) EXCEPT !.pc = "return"])

\* return LongitudinalReport(...)
ReturnReport(t) ==
    /\ At(t, "return")
    /\ \E now \in Clock :
          LET f == Local(frames, t)
          IN  Assign(t, [f EXCEPT
                           !.pc = "done",
                           !.result = Some(Return(LongitudinalReport(
                               args[t][2], f.measurements[1], f.analysis[1],
                               f.differentials[1], f.timeline_lines[1], now)))])

ConcurrentStep ==
    \E t \in Invocations :
        \/ CheckLength(t)
        \/ SortCopy(t)
        \/ AnalyzeLatest(t)
        \/ Differentials(t)
        \/ TimelineStart(t)
        \/ TimelineAppend(t)
        \/ ReturnReport(t)

InitManual ==
    /\ unit = "analyze_with_manual_measurements"
    /\ \E k \in 0..MaxSeries : \E ms \in [1..k -> ManualPool] :
          args = << <<ms, "">> >>
    /\ rets = << >>
    /\ frames = << >>
    /\ users = << >>
    /\ access_log = << >>

ManualAnalysis ==
    /\ unit = "analyze_with_manual_measurements"
    /\ Pending
    /\ \E now \in Clock :
          Returned(analyze_with_manual_measurements(NextArgs[1], NextArgs[2],
                                                   now))

\* A result without a report, or with a report of any analysis
\* The findings of the detector in one scan
FindingsPool ==
    {<< >>,
     <<DetectedNodule("right upper lobe", "solid", 20)>>,
     <<DetectedNodule("right upper lobe", "solid", 30)>>,
     <<DetectedNodule("Left Lower Lobe", "part-solid", 60),
       DetectedNodule("right upper lobe", "solid", 80)>>}

ScanPool == {[date |-> d, nodules |-> f] : d \in {0, 360}, f \in FindingsPool}

InitLongitudinal ==
    /\ unit = "ImageAnalysisPipeline.analyze_longitudinal"
    /\ \E k \in 0..MaxSeries : \E scans \in [1..k -> ScanPool] :
          \E target \in {None, Some(""), Some("upper"), Some("LEFT")} :
              args = << <<scans, None, target>> >>
    /\ rets = << >>
    /\ frames = << >>
    /\ users = << >>
    /\ access_log = << >>

AnalyzeLongitudinal ==
    /\ unit = "ImageAnalysisPipeline.analyze_longitudinal"
    /\ Pending
    /\ \E now \in Clock :
          Returned(analyze_longitudinal(NextArgs[1], NextArgs[2],
                                        NextArgs[3], now))

InitRequiresAction ==
    /\ unit = "PipelineResult.requires_action"
    /\ \/ args = << <<PipelineResult(None)>> >>
       \/ \E v \in {None, Some(Rat(150, 1)), Some(Rat(700, 1))},
             t \in ChangeTrajectory,
             c \in {None} \cup {Some(x) : x \in LungRADSCategory},
             r \in RiskLevel :
             args = << <<PipelineResult(Some(
                           [patient_context |-> "",
                            measurements |-> << >>,
                            analysis |-> ChangeAnalysis(v, t, c, r),
                            differentials |-> << >>,
                            timeline_summary |-> << >>]))>> >>
    /\ rets = << >>
    /\ frames = << >>
    /\ users = << >>
    /\ access_log = << >>

RequiresAction ==
    /\ unit = "PipelineResult.requires_action"
    /\ Pending
    /\ Returned(requires_action(NextArgs[1]))

----------------------------------------------------------------------------
(* AccessController (src/src/security/access_control.py) *)

UserRole ==
    {"physician", "radiologist", "nurse", "technician", "admin",
     "researcher", "guest"}

Permission ==
    {"READ_PHI", "WRITE_PHI", "DELETE_PHI", "READ_DEIDENTIFIED",
     "RUN_INFERENCE", "VIEW_RESULTS", "INTERPRET_RESULTS", "OVERRIDE_AI",
     "GENERATE_REPORT", "SIGN_REPORT", "EXPORT_REPORT",
     "MANAGE_USERS", "VIEW_AUDIT_LOG", "CONFIGURE_SYSTEM"}

ROLE_PERMISSIONS ==
    [role \in UserRole |->
        CASE role = "physician" ->
                {"READ_PHI", "WRITE_PHI", "RUN_INFERENCE", "VIEW_RESULTS",
                 "INTERPRET_RESULTS", "GENERATE_REPORT", "SIGN_REPORT",
                 "EXPORT_REPORT", "READ_DEIDENTIFIED"}
          [] role = "radiologist" ->
                {"READ_PHI", "WRITE_PHI", "RUN_INFERENCE", "VIEW_RESULTS",
                 "INTERPRET_RESULTS", "OVERRIDE_AI", "GENERATE_REPORT",
                 "SIGN_REPORT", "EXPORT_REPORT", "READ_DEIDENTIFIED"}
          [] role = "nurse" ->
                {"READ_PHI", "VIEW_RESULTS", "READ_DEIDENTIFIED"}
          [] role = "technician" ->
                {"READ_PHI", "RUN_INFERENCE", "VIEW_RESULTS",
                 "READ_DEIDENTIFIED"}
          [] role = "admin" ->
                {"MANAGE_USERS", "VIEW_AUDIT_LOG", "CONFIGURE_SYSTEM",
                 "READ_DEIDENTIFIED"}
          [] role = "researcher" ->
                {"READ_DEIDENTIFIED", "RUN_INFERENCE", "VIEW_RESULTS"}
          [] role = "guest" -> {"READ_DEIDENTIFIED"}]

\* A User as its constructor leaves it: no custom and no denied permission
User(user_id, role, is_active) ==
    [user_id |-> user_id, role |-> role, is_active |-> is_active,
     custom_permissions |-> {}, denied_permissions |-> {}]

\* Mutant: the custom permissions looked up before the denied ones
check_permission_custom_first(user, permission) ==
    IF ~user.is_active
    THEN [granted |-> FALSE, reason |-> "User inactive"]
    ELSE IF permission \in user.custom_permissions
    THEN [granted |-> TRUE, reason |-> "Custom permission"]
    ELSE IF permission \in user.denied_permissions
    THEN [granted |-> FALSE, reason |-> "Permission explicitly denied"]
    ELSE IF permission \in ROLE_PERMISSIONS[user.role]
    THEN [granted |-> TRUE, reason |-> "Role permission"]
    ELSE [granted |-> FALSE, reason |-> "Permission not in role"]

\* check_permission: what it returns and the reason it logs
check_permission(user, permission) ==
    IF ~user.is_active
    THEN [granted |-> FALSE, reason |-> "User inactive"]
    ELSE IF permission \in user.denied_permissions
    THEN [granted |-> FALSE, reason |-> "Permission explicitly denied"]
    ELSE IF permission \in user.custom_permissions
    THEN [granted |-> TRUE, reason |-> "Custom permission"]
    ELSE IF permission \in ROLE_PERMISSIONS[user.role]
    THEN [granted |-> TRUE, reason |-> "Role permission"]
    ELSE [granted |-> FALSE, reason |-> "Permission not in role"]

get_user_permissions(user) ==
    IF ~user.is_active THEN {}
    ELSE (ROLE_PERMISSIONS[user.role] \cup user.custom_permissions)
            \ user.denied_permissions

\* _log_access with no resource named: Resource.PATIENT_DATA is recorded
AccessAttempt(user_id, permission, now, granted, reason) ==
    [user_id |-> user_id, resource |-> "patient_data",
     permission |-> permission, timestamp |-> now, granted |-> granted,
     reason |-> reason]

\* Calls made to the controller in one run
MaxCalls == 3

UserIds == {"nurse1", "admin1"}

\* The permissions asked about: one of the nurse's role, one of the admin's
AskedPermissions == {"READ_PHI", "MANAGE_USERS"}

InitAccess ==
    /\ unit = "AccessController"
    /\ args = << >>
    /\ rets = << >>
    /\ frames = << >>
    /\ \E active \in BOOLEAN :
          users = [u \in UserIds |->
                      IF u = "nurse1" THEN User(u, "nurse", TRUE)
                      ELSE User(u, "admin", active)]
    /\ access_log = << >>

Called(call, v) ==
    /\ Len(args) < MaxCalls
    /\ args' = Append(args, call)
    /\ rets' = Append(rets, v)
    /\ UNCHANGED <<unit, frames>>

GrantPermission ==
    /\ unit = "AccessController"
    /\ \E u \in UserIds, p \in AskedPermissions :
          /\ users' = [users EXCEPT ![u].custom_permissions = @ \cup {p}]
          /\ Called(<<"grant_permission", u, p>>, None)
    /\ UNCHANGED access_log

DenyPermission ==
    /\ unit = "AccessController"
    /\ \E u \in UserIds, p \in AskedPermissions :
          /\ users' = [users EXCEPT ![u].denied_permissions = @ \cup {p}]
          /\ Called(<<"deny_permission", u, p>>, None)
    /\ UNCHANGED access_log

CheckPermission ==
    /\ unit = "AccessController"
    /\ \E u \in UserIds, p \in AskedPermissions, now \in Clock :
          /\ access_log' =
                Append(access_log,
                       AccessAttempt(u, p, now,
                                     check_permission(users[u], p).granted,
                                     check_permission(users[u], p).reason))
          /\ Called(<<"check_permission", u, p>>,
                    check_permission(users[u], p).granted)
    /\ UNCHANGED users

GetUserPermissions ==
    /\ unit = "AccessController"
    /\ \E u \in UserIds :
          Called(<<"get_user_permissions", u>>, get_user_permissions(users[u]))
    /\ UNCHANGED <<users, access_log>>

----------------------------------------------------------------------------
(* Specifications, one per entry point or group of entry points *)

SpecRisk == InitRisk /\ [][AssessRisk]_vars

SpecLungRads == InitLungRads /\ [][ClassifyLungRads]_vars

SpecLungRadsPair == InitLungRadsPair /\ [][ClassifyLungRads]_vars

SpecVDT == InitVDT /\ [][CalculateVDT]_vars

SpecVDTPair == InitVDTPair /\ [][CalculateVDT]_vars

SpecRecommendations ==
    InitRecommendations /\ [][GenerateRecommendations]_vars

SpecInterpretation ==
    (InitInterpretation \/ InitAnalyze)
    /\ [][GenerateInterpretation \/ AnalyzeChange]_vars

SpecDifferentials == InitDifferentials /\ [][GenerateDifferentials]_vars

SpecAnalyze == InitAnalyze /\ [][AnalyzeChange]_vars

SpecRepeat == InitRepeat /\ [][AnalyzeChange]_vars

SpecTrajectory ==
    (InitTrajectory \/ InitAnalyze)
    /\ [][DetermineTrajectory \/ AnalyzeChange]_vars

SpecMorphology ==
    (InitLungRads \/ InitAnalyze)
    /\ [][ClassifyLungRads \/ AnalyzeChange]_vars

SpecRequiresAction == InitRequiresAction /\ [][RequiresAction]_vars

SpecReport == InitReport /\ [][CreateReport]_vars

SpecFrame ==
    (InitAnalyze \/ InitReport) /\ [][AnalyzeChange \/ CreateReport]_vars

SpecConcurrent == InitConcurrent /\ [][ConcurrentStep]_vars

SpecLongitudinal == InitLongitudinal /\ [][AnalyzeLongitudinal]_vars

SpecAccess ==
    InitAccess
    /\ [][GrantPermission \/ DenyPermission \/ CheckPermission
            \/ GetUserPermissions]_vars

SpecManual == InitManual /\ [][ManualAnalysis]_vars

Init ==
    \/ InitRisk
    \/ InitLungRads
    \/ InitLungRadsPair
    \/ InitTrajectory
    \/ InitVDT
    \/ InitVDTPair
    \/ InitRecommendations
    \/ InitDifferentials
    \/ InitInterpretation
    \/ InitAnalyze
    \/ InitRepeat
    \/ InitReport
    \/ InitConcurrent
    \/ InitManual
    \/ InitLongitudinal
    \/ InitAccess
    \/ InitRequiresAction

Next ==
    \/ AssessRisk
    \/ ClassifyLungRads
    \/ DetermineTrajectory
    \/ CalculateVDT
    \/ GenerateRecommendations
    \/ GenerateDifferentials
    \/ GenerateInterpretation
    \/ AnalyzeChange
    \/ CreateReport
    \/ ConcurrentStep
    \/ ManualAnalysis
    \/ AnalyzeLongitudinal
    \/ GrantPermission
    \/ DenyPermission
    \/ CheckPermission
    \/ GetUserPermissions
    \/ RequiresAction

Spec == Init /\ [][Next]_vars

----------------------------------------------------------------------------
(* Properties *)

Calls == 1..Len(rets)

RiskRank(r) ==
    CASE r = LOW -> 0
      [] r = INTERMEDIATE -> 1
      [] r = HIGH -> 2
      [] r = VERY_HIGH -> 3

Known(o) == o # None

\* C1 (as claimed): for any two valid measurements a and b, equal dates
\* included, analyze_longitudinal_change(a, b) and
\* analyze_longitudinal_change(b, a) return analyses equal in every field.
C1_OrderingInvariance ==
    (/\ unit = "analyze_longitudinal_change"
     /\ Len(rets) = 2
     /\ args[2] = <<args[1][2], args[1][1]>>
     /\ Valid(args[1][1])
     /\ Valid(args[1][2]))
    => rets[1] = rets[2]

\* C1 (amended): for any two valid measurements with different dates the
\* two argument orders return analyses equal in every field.
C1_OrderingInvarianceDistinctDates ==
    (/\ unit = "analyze_longitudinal_change"
     /\ Len(rets) = 2
     /\ args[2] = <<args[1][2], args[1][1]>>
     /\ Valid(args[1][1])
     /\ Valid(args[1][2])
     /\ args[1][1].date # args[1][2].date)
    => rets[1] = rets[2]

\* C1 witness: a pair given later-first, with different sizes, analysed in
\* both orders with the same non-zero size change.
C1_Witness ==
    /\ unit = "analyze_longitudinal_change"
    /\ Len(rets) = 2
    /\ Valid(args[1][1])
    /\ Valid(args[1][2])
    /\ args[1][1].date > args[1][2].date
    /\ rets[1].size_change_mm > 0
    /\ rets[1] = rets[2]

\* C2 (as claimed): with category and trajectory fixed, for any two known
\* doubling times v1 < v2 the tier for v1 is at least the tier for v2.
C2_RiskMonotone ==
    (/\ unit = "assess_risk_level"
     /\ Len(rets) = 2
     /\ Known(args[1][1])
     /\ Known(args[2][1])
     /\ RatLess(args[1][1][1], args[2][1][1]))
    => RiskRank(rets[1]) >= RiskRank(rets[2])

\* The tier the category and trajectory rules give is at most INTERMEDIATE
FallsToAtMostIntermediate(lung_rads, trajectory) ==
    \/ lung_rads = CATEGORY_3
    \/ (lung_rads \notin {CATEGORY_4A, CATEGORY_4B}
        /\ trajectory # WORSENING)

\* C2 (amended): with category and trajectory fixed, for any two known
\* non-zero doubling times v1 < v2 the tier for v1 is at least the tier for
\* v2, provided v2 < 600 days or the category and trajectory rules give at
\* most INTERMEDIATE.
C2_RiskMonotoneBelowFallThrough ==
    (/\ unit = "assess_risk_level"
     /\ Len(rets) = 2
     /\ Truthy(args[1][1])
     /\ Truthy(args[2][1])
     /\ RatLess(args[1][1][1], args[2][1][1])
     /\ \/ RatLt(args[2][1][1], VDT_INTERMEDIATE)
        \/ FallsToAtMostIntermediate(args[1][2], args[1][3]))
    => RiskRank(rets[1]) >= RiskRank(rets[2])

\* C2 witness: category 4B, 399 days then 599 days: HIGH then INTERMEDIATE.
C2_Witness ==
    /\ unit = "assess_risk_level"
    /\ Len(rets) = 2
    /\ args[1][2] = CATEGORY_4B
    /\ args[1][1] = Some(Rat(399, 1))
    /\ args[2][1] = Some(Rat(599, 1))
    /\ rets = <<HIGH, INTERMEDIATE>>

\* The ordered first-match rule table of the risk assessor; `decided` says
\* whether the doubling time takes part.
RiskTable(decided, vdt, lung_rads, trajectory) ==
    CASE decided /\ RatLt(vdt[1], 200) -> VERY_HIGH
      [] decided /\ ~RatLt(vdt[1], 200) /\ RatLt(vdt[1], 400) -> HIGH
      [] decided /\ ~RatLt(vdt[1], 400) /\ RatLt(vdt[1], 600) -> INTERMEDIATE
      [] OTHER ->
           CASE lung_rads = CATEGORY_4B -> VERY_HIGH
             [] lung_rads = CATEGORY_4A -> HIGH
             [] lung_rads = CATEGORY_3 -> INTERMEDIATE
             [] OTHER -> IF trajectory = WORSENING THEN HIGH ELSE LOW

\* C3 (as claimed): assess_risk_level equals the rule table in which every
\* known doubling time below 600 days decides the tier.
C3_RiskTableKnown ==
    unit = "assess_risk_level" =>
        \A i \in Calls :
            rets[i] = RiskTable(Known(args[i][1]), args[i][1], args[i][2],
                                args[i][3])

\* C3 (amended): assess_risk_level equals the rule table in which every
\* known non-zero doubling time below 600 days decides the tier; an absent
\* doubling time, one of 0 and one of 600 days or more leave the tier to the
\* category, then the trajectory.
C3_RiskTableNonZero ==
    unit = "assess_risk_level" =>
        \A i \in Calls :
            rets[i] = RiskTable(Truthy(args[i][1]), args[i][1], args[i][2],
                                args[i][3])

\* C3 witness: 600 days, category 3, worsening: INTERMEDIATE, by category.
C3_Witness ==
    /\ unit = "assess_risk_level"
    /\ Len(rets) >= 1
    /\ args[1] = <<Some(Rat(600, 1)), CATEGORY_3, WORSENING>>
    /\ rets[1] = INTERMEDIATE

\* The severity decision table; `fast` says whether the doubling time counts
\* as below 400 days.
LungRadsTable(size_mm, nodule_type, growth_detected, fast) ==
    CASE nodule_type = "solid" ->
           (CASE size_mm < Mm(6) -> CATEGORY_2
              [] size_mm >= Mm(6) /\ size_mm < Mm(8) ->
                   IF growth_detected THEN CATEGORY_4A ELSE CATEGORY_3
              [] size_mm >= Mm(8) /\ size_mm < Mm(15) ->
                   IF growth_detected /\ fast THEN CATEGORY_4B
                   ELSE CATEGORY_4A
              [] OTHER -> CATEGORY_4B)
      [] nodule_type = "ground-glass" ->
           (CASE size_mm < Mm(30) -> CATEGORY_2
              [] OTHER -> IF growth_detected THEN CATEGORY_4A
                          ELSE CATEGORY_3)
      [] nodule_type = "part-solid" ->
           (CASE size_mm < Mm(6) -> CATEGORY_2
              [] OTHER -> IF growth_detected THEN CATEGORY_4B
                          ELSE CATEGORY_4A)

\* C4 (as claimed): for the three morphologies classify_lung_rads equals the
\* decision table, a solid 8-15 mm nodule being 4B when growth is detected
\* and the doubling time is known and below 400 days.
C4_LungRadsTableKnown ==
    unit = "classify_lung_rads" =>
        \A i \in Calls :
            args[i][2] \in NoduleTypes =>
                rets[i] = LungRadsTable(args[i][1], args[i][2], args[i][3],
                              Known(args[i][4])
                              /\ RatLt(args[i][4][1], 400))

\* C4 (amended): the same table, a solid 8-15 mm nodule being 4B when growth
\* is detected and the doubling time is known, not 0, and below 400 days.
C4_LungRadsTableNonZero ==
    unit = "classify_lung_rads" =>
        \A i \in Calls :
            args[i][2] \in NoduleTypes =>
                rets[i] = LungRadsTable(args[i][1], args[i][2], args[i][3],
                              Truthy(args[i][4])
                              /\ RatLt(args[i][4][1], 400))

\* C4 witness: a solid 8.0 mm nodule with growth and 399 days is 4B.
C4_Witness ==
    /\ unit = "classify_lung_rads"
    /\ Len(rets) = 1
    /\ args[1] = <<80, "solid", TRUE, Some(Rat(399, 1))>>
    /\ rets[1] = CATEGORY_4B

TrajectoryOf(p, r) ==
    /\ r \in {WORSENING, IMPROVING, STABLE}
    /\ (r = WORSENING <=> RatGt(p, 25))
    /\ (r = IMPROVING <=> RatLt(p, 0 - 25))
    /\ (r = STABLE <=> (~RatLt(p, 0 - 25) /\ RatLe(p, 25)))

\* C5: determine_trajectory returns WORSENING iff p > 25, IMPROVING iff
\* p < -25, STABLE iff -25 <= p <= 25, never INDETERMINATE; and so does the
\* trajectory of every analysis for its own volume change.
C5_TrajectoryTotal ==
    /\ unit = "determine_trajectory" =>
          \A i \in Calls : TrajectoryOf(args[i][2], rets[i])
    /\ unit = "analyze_longitudinal_change" =>
          \A i \in Calls :
              TrajectoryOf(rets[i].volume_change_percent, rets[i].trajectory)

\* C5 witness: a volume change of exactly 25 percent is STABLE.
C5_Witness ==
    /\ unit = "determine_trajectory"
    /\ Len(rets) = 1
    /\ args[1][2] = Rat(2500, 100)
    /\ rets[1] = STABLE

\* C6: create_longitudinal_report raises, and returns no report, for a list
\* of 0 or 1 measurements, and does not raise for 2 or more.
C6_InsufficientData ==
    unit = "create_longitudinal_report" =>
        \A i \in Calls :
            IF Len(args[i][1]) < 2
            THEN rets[i] = InsufficientData
            ELSE rets[i].ok

\* C6 witness: a single measurement was handed in and the call raised.
C6_Witness ==
    /\ unit = "create_longitudinal_report"
    /\ Len(rets) = 1
    /\ Len(args[1][1]) = 1
    /\ ~rets[1].ok

\* C7 (as claimed): no measurement of size <= 0 reaches a report, those
\* built by analyze_with_manual_measurements included.
C7_NoNonPositiveSize ==
    unit = "analyze_with_manual_measurements" =>
        \A i \in Calls :
            rets[i].ok =>
                LET ms == rets[i].value.longitudinal_report[1].measurements
                IN  \A k \in 1..Len(ms) : ms[k].size_mm > 0

Earlier(a, b) == IF b.date < a.date THEN b ELSE a
Later(a, b) == IF b.date < a.date THEN a ELSE b

\* C8 (as claimed): calculate_volume_doubling_time returns None when the
\* whole days elapsed are <= 0 or the later volume is <= the earlier one,
\* and a positive number in every other case.
C8_VdtNoneOrPositive ==
    unit = "calculate_volume_doubling_time" =>
        \A i \in Calls :
            LET m1 == Earlier(args[i][1], args[i][2])
                m2 == Later(args[i][1], args[i][2])
            IN  IF \/ DaysBetween(m1.date, m2.date) <= 0
                   \/ volume_calculated(m2) <= volume_calculated(m1)
                THEN rets[i] = None
                ELSE rets[i] # None /\ rets[i][1].n > 0

\* C9: for every risk tier and trajectory generate_recommendations returns
\* a non-empty list whose last entry is the disclaimer.
C9_DisclaimerLast ==
    unit = "generate_recommendations" =>
        \A i \in Calls :
            /\ Len(rets[i]) >= 1
            /\ rets[i][Len(rets[i])] = REC_DISCLAIMER

\* C9 witness: LOW risk with a WORSENING trajectory, which the analysis
\* never produces: the disclaimer is returned.
C9_Witness ==
    /\ unit = "generate_recommendations"
    /\ Len(rets) = 1
    /\ args[1][1].risk_level = LOW
    /\ args[1][1].trajectory = WORSENING
    /\ rets[1][Len(rets[1])] = REC_DISCLAIMER

Front(s) == SubSeq(s, 1, Len(s) - 1)
Range(s) == {s[k] : k \in 1..Len(s)}

\* C10: the entries before the disclaimer follow the risk tier: VERY_HIGH
\* urgent sampling then tumor board; HIGH PET-CT, sampling if positive,
\* 3-month follow-up; INTERMEDIATE 6 months if STABLE, else 3 months; LOW
\* annual screening if STABLE, 12 months if IMPROVING; and every HIGH or
\* VERY_HIGH list names PET-CT or tissue sampling.
C10_RecommendationTable ==
    unit = "generate_recommendations" =>
        \A i \in Calls :
            LET risk == args[i][1].risk_level
                traj == args[i][1].trajectory
                front == Front(rets[i])
            IN  /\ risk = VERY_HIGH => front = <<REC_URGENT, REC_TUMOR_BOARD>>
                /\ risk = HIGH =>
                     front = <<REC_PET, REC_SAMPLING, REC_SHORT_INTERVAL>>
                /\ risk = INTERMEDIATE =>
                     front = IF traj = STABLE THEN <<REC_6_MONTHS>>
                             ELSE <<REC_3_MONTHS>>
                /\ (risk = LOW /\ traj = STABLE) => front = <<REC_ANNUAL>>
                /\ (risk = LOW /\ traj = IMPROVING) =>
                     front = <<REC_12_MONTHS>>
                /\ risk \in {HIGH, VERY_HIGH} =>
                     Range(front) \cap {REC_URGENT, REC_PET, REC_SAMPLING}
                         # {}

\* C10 witness: a HIGH-risk analysis got PET-CT, sampling and the 3-month
\* follow-up before the disclaimer.
C10_Witness ==
    /\ unit = "generate_recommendations"
    /\ Len(rets) = 1
    /\ args[1][1].risk_level = HIGH
    /\ rets[1] = <<REC_PET, REC_SAMPLING, REC_SHORT_INTERVAL, REC_DISCLAIMER>>


DistinctDates(ms) ==
    \A i \in 1..Len(ms) : \A j \in 1..Len(ms) :
        i # j => ms[i].date # ms[j].date

\* The latest-dated measurement of a series of distinct dates, and the
\* latest-dated of the others
Latest(ms) ==
    CHOOSE m \in Range(ms) : \A x \in Range(ms) : x.date <= m.date
SecondLatest(ms) ==
    CHOOSE m \in Range(ms) \ {Latest(ms)} :
        \A x \in Range(ms) \ {Latest(ms)} : x.date <= m.date

\* C11 (as claimed): exchanging entries of the caller's list never changes
\* the analysis of the report.
C11_PermutationInvariant ==
    (/\ unit = "create_longitudinal_report"
     /\ Len(rets) = 2
     /\ Len(args[1][1]) >= 2)
    => rets[1].value.analysis = rets[2].value.analysis

\* C11 (amended): for a series of 2 or more measurements of pairwise
\* different dates, in any order, the analysis of the report is
\* analyze_longitudinal_change of the second-latest and the latest
\* measurement, and exchanging entries of the list does not change it.
C11_LatestPairDistinctDates ==
    unit = "create_longitudinal_report" =>
        /\ \A i \in Calls :
              (Len(args[i][1]) >= 2 /\ DistinctDates(args[i][1])) =>
                  rets[i].value.analysis =
                      analyze_longitudinal_change(SecondLatest(args[i][1]),
                                                  Latest(args[i][1]))
        /\ (Len(rets) = 2 /\ Len(args[1][1]) >= 2
               /\ DistinctDates(args[1][1])) =>
                  rets[1].value.analysis = rets[2].value.analysis

\* C11 witness: three measurements of different dates given latest first,
\* then with two entries exchanged; both reports analyse the same interval.
C11_Witness ==
    /\ unit = "create_longitudinal_report"
    /\ Len(rets) = 2
    /\ Len(args[1][1]) = 3
    /\ DistinctDates(args[1][1])
    /\ args[1][1][1].date = 500
    /\ args[2][1] # args[1][1]
    /\ rets[1].value.analysis = rets[2].value.analysis
    /\ rets[1].value.analysis.days_between = DaysBetween(360, 500)


Count(ms, x) == Cardinality({i \in 1..Len(ms) : ms[i] = x})

\* C12: the measurements of every report returned are the input series
\* rearranged, nothing dropped or duplicated, in ascending date order.
C12_SortedPermutation ==
    unit = "create_longitudinal_report" =>
        \A i \in Calls :
            rets[i].ok =>
                LET input == args[i][1]
                    ms == rets[i].value.measurements
                IN  /\ Len(ms) = Len(input)
                    /\ \A x \in Range(input) \cup Range(ms) :
                          Count(ms, x) = Count(input, x)
                    /\ \A k \in 1..(Len(ms) - 1) :
                          ms[k].date <= ms[k + 1].date

\* C12 witness: a series of three given latest first, one measurement in it
\* twice; the report holds all three, in date order.
C12_Witness ==
    /\ unit = "create_longitudinal_report"
    /\ Len(rets) >= 1
    /\ Len(args[1][1]) = 3
    /\ args[1][1][1].date = 500
    /\ args[1][1][2] = args[1][1][3]
    /\ args[1][1][2].date = 0
    /\ rets[1].value.measurements =
           <<args[1][1][2], args[1][1][3], args[1][1][1]>>


\* `YYYY-MM-DD: <size>mm <morphology> nodule` behind the given prefix
LineForm(prefix, line, m) ==
    line = <<prefix, m.date \div TicksPerDay, ": ", m.size_mm, "mm ",
             m.nodule_type, " nodule">>

\* C13 (as claimed): the timeline text has exactly as many lines as the
\* report has measurements, line k being that of the k-th measurement in
\* date order.
C13_TimelineLinesOnly ==
    unit = "create_longitudinal_report" =>
        \A i \in Calls :
            rets[i].ok =>
                LET ms == rets[i].value.measurements
                    text == rets[i].value.timeline_summary
                IN  /\ Len(text) = Len(ms)
                    /\ \A k \in 1..Len(ms) :
                          \E prefix \in {"", "- "} :
                              LineForm(prefix, text[k], ms[k])

\* C13 (amended): the timeline text is the header line `TIMELINE:` followed
\* by exactly one line per measurement, in ascending date order, each of
\* the form `- YYYY-MM-DD: <size>mm <morphology> nodule`.
C13_TimelineHeaderAndLines ==
    unit = "create_longitudinal_report" =>
        \A i \in Calls :
            rets[i].ok =>
                LET ms == rets[i].value.measurements
                    text == rets[i].value.timeline_summary
                IN  /\ Len(text) = Len(args[i][1]) + 1
                    /\ Len(ms) = Len(args[i][1])
                    /\ text[1] = <<"TIMELINE:">>
                    /\ \A k \in 1..Len(ms) :
                          LineForm("- ", text[k + 1], ms[k])
                    /\ \A k \in 2..(Len(text) - 1) :
                          text[k][2] <= text[k + 1][2]

\* C13 witness: three measurements given latest first; the header and three
\* lines, the earliest first.
C13_Witness ==
    /\ unit = "create_longitudinal_report"
    /\ Len(rets) >= 1
    /\ Len(args[1][1]) = 3
    /\ args[1][1][1].date = 500
    /\ args[1][1][3].date = 0
    /\ Len(rets[1].value.timeline_summary) = 4
    /\ rets[1].value.timeline_summary[2][2] = 0
    /\ rets[1].value.timeline_summary[4][2] = 500 \div TicksPerDay


\* C14: every analysis has days_between >= 0; when the dates differ its
\* size change is the later size minus the earlier size and, for valid
\* measurements, its percentages are those of the later value over the
\* earlier one, in whichever argument position each measurement came.
C14_ChronologicalDeltas ==
    unit = "analyze_longitudinal_change" =>
        \A i \in Calls :
            LET a == args[i][1]
                b == args[i][2]
                e == Earlier(a, b)
                l == Later(a, b)
                ve == volume_calculated(e)
                vl == volume_calculated(l)
            IN  /\ rets[i].days_between >= 0
                /\ a.date # b.date =>
                     /\ rets[i].days_between
                           = (l.date - e.date) \div TicksPerDay
                     /\ rets[i].size_change_mm = l.size_mm - e.size_mm
                     /\ (Valid(a) /\ Valid(b)) =>
                          /\ rets[i].size_change_percent
                                = Rat((l.size_mm - e.size_mm) * 100,
                                      e.size_mm)
                          /\ rets[i].volume_change_percent
                                = Rat((vl - ve) * 100, ve)

\* C14 witness: the later, smaller measurement given first: the change is
\* negative over a positive number of days.
C14_Witness ==
    /\ unit = "analyze_longitudinal_change"
    /\ Len(rets) >= 1
    /\ args[1][1].date > args[1][2].date
    /\ Valid(args[1][1])
    /\ args[1][1].size_mm < args[1][2].size_mm
    /\ rets[1].days_between > 0
    /\ rets[1].size_change_mm = args[1][1].size_mm - args[1][2].size_mm


ProbabilityRank(p) ==
    CASE p = "very_low" -> 0
      [] p = "low" -> 1
      [] p = "moderate" -> 2
      [] p = "high" -> 3

\* The candidates as <<diagnosis, prior tier, current tier>>
Candidates(ds) ==
    [k \in 1..Len(ds) |->
        <<ds[k].diagnosis, ds[k].prior_probability,
          ds[k].current_probability>>]

CandidateTable(trajectory) ==
    CASE trajectory = WORSENING ->
           << <<"Primary lung malignancy", "moderate", "high">>,
              <<"Inflammatory/infectious", "moderate", "low">>,
              <<"Slow-growing carcinoid", "low", "moderate">> >>
      [] trajectory = STABLE ->
           << <<"Benign granuloma", "moderate", "high">>,
              <<"Primary lung malignancy", "moderate", "low">>,
              <<"Hamartoma", "low", "moderate">> >>
      [] trajectory = IMPROVING ->
           << <<"Resolving infection", "moderate", "high">>,
              <<"Primary lung malignancy", "moderate", "very_low">> >>
      [] trajectory = INDETERMINATE -> << >>

Malignancy(ds) ==
    {ds[k] : k \in {j \in 1..Len(ds) :
                       ds[j].diagnosis = "Primary lung malignancy"}}

\* C15: generate_differential_evolution returns the fixed candidate set of
\* the trajectory, whatever the other fields of the analysis, and the
\* malignancy entry rises exactly for WORSENING and falls for STABLE and
\* IMPROVING.
C15_DifferentialTable ==
    unit = "generate_differential_evolution" =>
        /\ \A i \in Calls :
              LET t == args[i][1].trajectory
              IN  /\ Candidates(rets[i]) = CandidateTable(t)
                  /\ \A m \in Malignancy(rets[i]) :
                        /\ ProbabilityRank(m.current_probability)
                              > ProbabilityRank(m.prior_probability)
                           <=> t = WORSENING
                        /\ t \in {STABLE, IMPROVING} =>
                              ProbabilityRank(m.current_probability)
                                < ProbabilityRank(m.prior_probability)
                  /\ t # INDETERMINATE => Cardinality(Malignancy(rets[i])) = 1
        /\ Len(rets) = 2 => rets[1] = rets[2]

\* C15 witness: a STABLE analysis of VERY_HIGH risk and one of LOW risk got
\* the same three candidates, malignancy falling from moderate to low.
C15_Witness ==
    /\ unit = "generate_differential_evolution"
    /\ Len(rets) = 2
    /\ args[1][1].trajectory = STABLE
    /\ args[1][1].risk_level = VERY_HIGH
    /\ args[2][1].risk_level = LOW
    /\ Len(rets[1]) = 3
    /\ rets[1][2].current_probability = "low"
    /\ rets[1] = rets[2]


\* C16: every report returned for a valid series has a non-empty list of
\* differentials, a primary-malignancy entry among them, and the list is
\* generate_differential_evolution of the report's own analysis.
C16_ReportDifferentials ==
    unit = "create_longitudinal_report" =>
        \A i \in Calls :
            (rets[i].ok /\ \A m \in Range(args[i][1]) : Valid(m)) =>
                LET report == rets[i].value
                IN  /\ Len(report.differentials) >= 1
                    /\ Malignancy(report.differentials) # {}
                    /\ Candidates(report.differentials)
                          = CandidateTable(report.analysis.trajectory)
                    /\ report.differentials
                          = generate_differential_evolution(report.analysis)

\* C16 witness: the latest interval of a series of three shrinks; the report
\* lists resolving infection and malignancy.
C16_Witness ==
    /\ unit = "create_longitudinal_report"
    /\ Len(rets) >= 1
    /\ Len(args[1][1]) = 3
    /\ rets[1].ok
    /\ rets[1].value.analysis.trajectory = IMPROVING
    /\ Len(rets[1].value.differentials) = 2
    /\ rets[1].value.differentials[2].diagnosis = "Primary lung malignancy"


BelowSuspicious(m) ==
    CASE m.nodule_type = "solid" -> m.size_mm < Mm(8)
      [] m.nodule_type = "part-solid" -> m.size_mm < Mm(6)
      [] OTHER -> TRUE

C18_UnrecognizedMorphology ==
    /\ unit = "classify_lung_rads" =>
          \A i \in Calls :
              args[i][2] \notin NoduleTypes => rets[i] = CATEGORY_3
    /\ unit = "analyze_longitudinal_change" =>
          \A i \in Calls :
              LET prior == Earlier(args[i][1], args[i][2])
                  current == Later(args[i][1], args[i][2])
              IN  /\ rets[i].trajectory \in ChangeTrajectory
                  /\ rets[i].risk_level \in RiskLevel
                  /\ (current.nodule_type \notin NoduleTypes
                        /\ prior.date # current.date) =>
                       rets[i].lung_rads_current = Some(CATEGORY_3)
                  /\ (prior.nodule_type \notin NoduleTypes
                        /\ prior.date # current.date) =>
                       rets[i].lung_rads_prior = Some(CATEGORY_3)

\* C18 witness: a growing calcified nodule of 30 mm was analysed: category
\* 3 now and before.
C18_Witness ==
    /\ unit = "analyze_longitudinal_change"
    /\ Len(rets) >= 1
    /\ args[1][1].nodule_type = "calcified"
    /\ args[1][2].nodule_type = "calcified"
    /\ args[1][1].date < args[1][2].date
    /\ args[1][2].size_mm = 300
    /\ rets[1].trajectory = WORSENING
    /\ rets[1].lung_rads_current = Some(CATEGORY_3)
    /\ rets[1].lung_rads_prior = Some(CATEGORY_3)


C20_RequiresAction ==
    unit = "PipelineResult.requires_action" =>
        \A i \in Calls :
            LET report == args[i][1].longitudinal_report
            IN  rets[i] = TRUE
                <=> /\ report # None
                    /\ report[1].analysis.risk_level \in {HIGH, VERY_HIGH}

\* C20 witness: a result with a report of INTERMEDIATE risk requires no
\* action.
C20_Witness ==
    /\ unit = "PipelineResult.requires_action"
    /\ Len(rets) = 1
    /\ args[1][1].longitudinal_report # None
    /\ args[1][1].longitudinal_report[1].analysis.risk_level = INTERMEDIATE
    /\ rets[1] = FALSE

\* Two volume doubling times over the same interval have the same numerator
\* (days * ln 2), so the shorter one is the one with the larger logarithm.
ShorterVdt(p, q) == p.n = q.n /\ p.d > q.d

\* The two calls share the prior and the elapsed days, both return a VDT and
\* the second current measurement is strictly larger in size_mm.
LargerCurrent ==
    /\ unit = "calculate_volume_doubling_time"
    /\ Len(rets) = 2
    /\ args[1][1] = args[2][1]
    /\ DaysBetween(args[1][1].date, args[1][2].date) > 0
    /\ DaysBetween(args[1][1].date, args[1][2].date)
         = DaysBetween(args[2][1].date, args[2][2].date)
    /\ rets[1] # None
    /\ rets[2] # None
    /\ args[2][2].size_mm > args[1][2].size_mm

\* No volume_mm3 that volume_calculated would use in place of the sphere
SphereOnly(m) == m.volume_mm3 = None \/ m.volume_mm3[1] = 0

\* C21 as stated: for a fixed prior and fixed elapsed days > 0, among the
\* current measurements with a defined VDT a strictly larger size_mm gives a
\* strictly smaller VDT.
C21_LargerSizeShorterVdt ==
    LargerCurrent => ShorterVdt(rets[2][1], rets[1][1])

\* C21 amended: the same, for a prior measurement of positive volume and
\* current measurements whose volume is derived from size_mm (no explicit
\* volume_mm3 in use).
C21_LargerSphereShorterVdt ==
    (LargerCurrent /\ volume_calculated(args[1][1]) > 0
        /\ SphereOnly(args[1][2]) /\ SphereOnly(args[2][2]))
        => ShorterVdt(rets[2][1], rets[1][1])

\* C21 witness: 6.0 mm followed after 360 days by 6.1 mm in one call and by
\* 8.3 mm in the other; both have a VDT and the second is the shorter.
C21_Witness ==
    /\ LargerCurrent
    /\ SphereOnly(args[1][2]) /\ SphereOnly(args[2][2])
    /\ args[1][1].size_mm = 60
    /\ args[1][2].size_mm = 61
    /\ args[2][2].size_mm = 83
    /\ ShorterVdt(rets[2][1], rets[1][1])

Alone(t) ==
    CHOOSE r \in {create_longitudinal_report(args[t][1], args[t][2], now) :
                    now \in {1000}} : TRUE

Finished(t) == frames[t].pc = "done"

\* C23: whatever the interleaving of the statements of two invocations of
\* create_longitudinal_report on different series, each invocation ends as
\* the same call does when run alone: it raises the same error, or returns
\* the same analysis, differentials and timeline; and each local name an
\* invocation holds on the way is the one its own series gives.
C23_SameAsAlone ==
    unit = "create_longitudinal_report (concurrent)" =>
        \A t \in Invocations :
            /\ frames[t].measurements # None =>
                   frames[t].measurements[1] = SortedByDate(args[t][1])
            /\ frames[t].analysis # None =>
                   frames[t].analysis[1] = Alone(t).value.analysis
            /\ Finished(t) =>
                   LET result == frames[t].result[1]
                   IN  IF Alone(t).ok
                       THEN /\ result.ok
                            /\ result.value.analysis = Alone(t).value.analysis
                            /\ result.value.differentials
                                 = Alone(t).value.differentials
                            /\ result.value.timeline_summary
                                 = Alone(t).value.timeline_summary
                       ELSE result = Alone(t)

\* C23 witness: both invocations returned, the first a report of a growing
\* nodule from a series handed in latest first, the second a report of a
\* shrinking one.
C23_Witness ==
    /\ unit = "create_longitudinal_report (concurrent)"
    /\ Finished(1) /\ Finished(2)
    /\ frames[1].result[1].ok /\ frames[2].result[1].ok
    /\ args[1][1][1].date > args[1][1][2].date
    /\ frames[1].result[1].value.analysis.trajectory = WORSENING
    /\ frames[2].result[1].value.analysis.trajectory = IMPROVING
    /\ frames[1].result[1].value.timeline_summary
         # frames[2].result[1].value.timeline_summary

\* The interpretation under examination and the analysis it was built from:
\* of a direct call, or of an analysis analyze_longitudinal_change returned
Interpreted ==
    IF unit = "generate_clinical_interpretation"
    THEN {[analysis |-> args[i][1], text |-> rets[i]] : i \in Calls}
    ELSE IF unit = "analyze_longitudinal_change"
    THEN {[analysis |-> rets[i], text |-> rets[i].clinical_interpretation] :
            i \in Calls}
    ELSE {}

VdtStatements ==
    {"vdt: rapid growth, highly suggestive of malignancy",
     "vdt: (<400 days) raises concern for malignancy",
     "vdt: suggests intermediate growth rate",
     "vdt: slower growth, continued surveillance warranted"}

\* The statement of the tier a doubling time falls in: <200, <400, <600, >=600
VdtTier(v) ==
    IF RatLt(v, 200) THEN "vdt: rapid growth, highly suggestive of malignancy"
    ELSE IF RatLt(v, 400) THEN "vdt: (<400 days) raises concern for malignancy"
    ELSE IF RatLt(v, 600) THEN "vdt: suggests intermediate growth rate"
    ELSE "vdt: slower growth, continued surveillance warranted"

RiskStatements ==
    {<<"Overall risk assessment: LOW.">>,
     <<"Overall risk assessment: INTERMEDIATE.">>,
     <<"Overall risk assessment: HIGH - further evaluation recommended.">>,
     <<"Overall risk assessment: VERY HIGH - urgent evaluation recommended.">>}

Positions(text, heads) == {k \in 1..Len(text) : text[k][1] \in heads}

\* C24 as stated: a VDT statement is present iff a VDT is known, the
\* current-category statement is present, the category-change note is
\* present iff the prior category is set and differs from the current one,
\* and the risk statement is present and last.
C24_InterpretationParts ==
    \A x \in Interpreted :
        /\ Positions(x.text, VdtStatements) # {}
             <=> x.analysis.volume_doubling_time_days # None
        /\ Positions(x.text, {"Current Lung-RADS category:"}) # {}
        /\ Positions(x.text, {"Category has changed from"}) # {}
             <=> /\ x.analysis.lung_rads_prior # None
                 /\ x.analysis.lung_rads_prior # x.analysis.lung_rads_current
        /\ x.text[Len(x.text)] \in RiskStatements

\* C24 amended: the text is, in this order, the statement of the VDT tier
\* iff a VDT is known and is not 0, the current-category statement iff the
\* current category is set, the category-change note iff both categories
\* are set and differ, and the statement of the risk tier, always and last.
C24_InterpretationOrder ==
    \A x \in Interpreted :
        LET a == x.analysis
            vdt == a.volume_doubling_time_days
            expected ==
                (IF vdt # None /\ vdt[1].n # 0
                 THEN << <<VdtTier(vdt[1]), Fmt0(vdt[1])>> >> ELSE << >>)
                \o (IF a.lung_rads_current # None
                    THEN << <<"Current Lung-RADS category:",
                              a.lung_rads_current[1]>> >>
                    ELSE << >>)
                \o (IF /\ a.lung_rads_current # None
                       /\ a.lung_rads_prior # None
                       /\ a.lung_rads_prior # a.lung_rads_current
                    THEN << <<"Category has changed from",
                              a.lung_rads_prior[1], "to",
                              a.lung_rads_current[1]>> >>
                    ELSE << >>)
                \o <<RiskDescription(a.risk_level)>>
        IN  /\ x.text = expected
            /\ x.text[Len(x.text)] \in RiskStatements

\* C24 witness: an interpretation of all four parts, for a doubling time of
\* 199.5 days and a category that changed.
C24_Witness ==
    /\ unit = "generate_clinical_interpretation"
    /\ Len(rets) = 1
    /\ Len(rets[1]) = 4
    /\ args[1][1].volume_doubling_time_days = Some(Rat(399, 2))
    /\ rets[1][1][1] = "vdt: rapid growth, highly suggestive of malignancy"
    /\ rets[1][2][1] = "Current Lung-RADS category:"
    /\ rets[1][3][1] = "Category has changed from"
    /\ rets[1][4] \in RiskStatements

\* C25: in analyze_longitudinal_change the prior category is the category of
\* the earlier measurement's size and morphology with growth_detected false
\* and no VDT; the current category is that of the later measurement with
\* growth_detected true exactly when the trajectory is WORSENING, and with
\* the interval's VDT; the risk tier is assessed from the current category.
C25_CategoryInputs ==
    unit = "analyze_longitudinal_change" =>
        \A i \in Calls :
            LET prior == Earlier(args[i][1], args[i][2])
                current == Later(args[i][1], args[i][2])
                a == rets[i]
            IN  /\ a.lung_rads_prior =
                     Some(classify_lung_rads(prior.size_mm, prior.nodule_type,
                                             FALSE, None))
                /\ a.lung_rads_current =
                     Some(classify_lung_rads(
                              current.size_mm, current.nodule_type,
                              a.trajectory = WORSENING,
                              a.volume_doubling_time_days))
                /\ a.risk_level =
                     assess_risk_level(a.volume_doubling_time_days,
                                       a.lung_rads_current[1], a.trajectory)

\* C25 witness: a 6.0 mm solid nodule grew to 8.3 mm; with the growth of the
\* interval the prior would be 4A, and it is 3; the current category is 4B.
C25_Witness ==
    /\ unit = "analyze_longitudinal_change"
    /\ Len(rets) >= 1
    /\ args[1][1].size_mm = 60 /\ args[1][1].nodule_type = "solid"
    /\ args[1][2].size_mm = 83
    /\ rets[1].trajectory = WORSENING
    /\ rets[1].volume_doubling_time_days # None
    /\ rets[1].lung_rads_prior = Some(CATEGORY_3)
    /\ classify_lung_rads(60, "solid", TRUE, None) = CATEGORY_4A
    /\ rets[1].lung_rads_current = Some(CATEGORY_4B)
    /\ rets[1].risk_level \in {HIGH, VERY_HIGH}

\* C26 (as claimed): in every analysis returned by
\* analyze_longitudinal_change the doubling time is set if and only if
\* days_between >= 1 and volume_change_percent > 0; an IMPROVING interval
\* carries none, a WORSENING interval of at least one day carries one, and
\* without a doubling time neither the change summary nor the comparison
\* paragraph nor the clinical interpretation has a sentence on it.
C26_VdtConsistent ==
    unit = "analyze_longitudinal_change" =>
        \A i \in Calls :
            LET a == rets[i]
                vdt == a.volume_doubling_time_days
            IN  /\ vdt # None
                     <=> (a.days_between >= 1
                          /\ RatGt(a.volume_change_percent, 0))
                /\ a.trajectory = IMPROVING => vdt = None
                /\ (a.trajectory = WORSENING /\ a.days_between >= 1)
                     => vdt # None
                /\ vdt = None =>
                     /\ a.trajectory = WORSENING =>
                          /\ a.change_summary[9] = << >>
                          /\ a.comparison_paragraph[11] = << >>
                     /\ Positions(a.clinical_interpretation, VdtStatements)
                          = {}

\* C27: no analysis returned by analyze_longitudinal_change is of LOW risk
\* and WORSENING trajectory at once, and its recommendations are at least
\* two: one or more entries of the tier, then the disclaimer.
C27_NeverDisclaimerAlone ==
    unit = "analyze_longitudinal_change" =>
        \A i \in Calls :
            /\ ~(rets[i].risk_level = LOW /\ rets[i].trajectory = WORSENING)
            /\ Len(rets[i].recommendations) >= 2
            /\ rets[i].recommendations[Len(rets[i].recommendations)]
                 = REC_DISCLAIMER

\* C27 witness: a ground-glass nodule of category 2 grew between two scans
\* of one day, so that no doubling time is known; growth alone makes the
\* risk HIGH and the recommendations are those of HIGH and the disclaimer.
C27_Witness ==
    /\ unit = "analyze_longitudinal_change"
    /\ Len(rets) >= 1
    /\ rets[1].trajectory = WORSENING
    /\ rets[1].volume_doubling_time_days = None
    /\ rets[1].lung_rads_current = Some(CATEGORY_2)
    /\ rets[1].risk_level = HIGH
    /\ Len(rets[1].recommendations) = 4

\* The order 2 < 3 < 4A < 4B of the categories classify_lung_rads returns
RadsRank(c) ==
    CASE c = CATEGORY_2 -> 2
      [] c = CATEGORY_3 -> 3
      [] c = CATEGORY_4A -> 4
      [] c = CATEGORY_4B -> 5

\* C28: for a fixed morphology and a fixed VDT, the category
\* classify_lung_rads returns does not decrease when size_mm increases with
\* growth_detected fixed, nor when growth_detected goes from false to true
\* with size_mm fixed.
C28_Monotone ==
    (unit = "classify_lung_rads" /\ Len(rets) = 2
        /\ args[1][2] = args[2][2] /\ args[1][4] = args[2][4]) =>
        /\ (args[1][1] <= args[2][1] /\ args[1][3] = args[2][3])
              => RadsRank(rets[1]) <= RadsRank(rets[2])
        /\ (args[1][1] = args[2][1] /\ ~args[1][3] /\ args[2][3])
              => RadsRank(rets[1]) <= RadsRank(rets[2])

\* C28 witness: a growing solid nodule with a doubling time of 199 days is
\* 4A at 7.9 mm and 4B at 8.0 mm.
C28_Witness ==
    /\ unit = "classify_lung_rads"
    /\ Len(rets) = 2
    /\ args[1] = <<79, "solid", TRUE, Some(Rat(199, 1))>>
    /\ args[2] = <<80, "solid", TRUE, Some(Rat(199, 1))>>
    /\ rets[1] = CATEGORY_4A
    /\ rets[2] = CATEGORY_4B

\* A scan is trackable when one of the nodules the target location admits
\* (all of them without a target) is at least min_nodule_size_mm: the
\* largest of them then is.
Trackable(scan, target) ==
    \E k \in 1..Len(scan.nodules) :
        /\ scan.nodules[k].size_mm >= 30
        /\ \/ target = None
           \/ target = Some("")
           \/ target = Some("upper")
                /\ scan.nodules[k].location = "right upper lobe"
           \/ target = Some("LEFT")
                /\ scan.nodules[k].location = "Left Lower Lobe"

TrackableScans(scans, target) ==
    {k \in 1..Len(scans) : Trackable(scans[k], target)}

\* C29: analyze_longitudinal returns a result whatever it is handed; where
\* fewer than two scans are trackable the result has no longitudinal
\* report, requires no action, carries a warning and counts every scan
\* supplied as processed.
C29_InsufficientScans ==
    unit = "ImageAnalysisPipeline.analyze_longitudinal" =>
        \A i \in Calls :
            /\ rets[i].ok
            /\ Cardinality(TrackableScans(args[i][1], args[i][3])) < 2 =>
                 /\ rets[i].value.longitudinal_report = None
                 /\ ~has_longitudinal(rets[i].value)
                 /\ ~requires_action(rets[i].value)
                 /\ rets[i].value.warnings # << >>
                 /\ rets[i].value.scans_processed = Len(args[i][1])

\* C29 witness: three scans with nodules in each, of which only one has a
\* nodule in the left lung; tracking the left lung gives one measurement and
\* the result is the one without a report.
C29_Witness ==
    /\ unit = "ImageAnalysisPipeline.analyze_longitudinal"
    /\ Len(rets) = 1
    /\ Len(args[1][1]) = 3
    /\ args[1][3] = Some("LEFT")
    /\ \A k \in 1..3 : args[1][1][k].nodules # << >>
    /\ Cardinality(TrackableScans(args[1][1], args[1][3])) = 1
    /\ rets[1].ok
    /\ rets[1].value.longitudinal_report = None
    /\ rets[1].value.scans_processed = 3
    /\ Len(rets[1].value.warnings) = 1

\* The permission was denied to, or granted to, the user by a call before
\* the i-th
DeniedBefore(i, u, p) ==
    \E j \in 1..(i - 1) : args[j] = <<"deny_permission", u, p>>

GrantedBefore(i, u, p) ==
    \E j \in 1..(i - 1) : args[j] = <<"grant_permission", u, p>>

\* What the precedence rules give for the i-th call
Permitted(i, u, p) ==
    /\ users[u].is_active
    /\ ~DeniedBefore(i, u, p)
    /\ GrantedBefore(i, u, p) \/ p \in ROLE_PERMISSIONS[users[u].role]

\* C30: over any sequence of grant_permission, deny_permission and
\* check_permission calls, check_permission(user, p) is false when the user
\* is inactive or p was ever denied to the user, a later grant included,
\* and otherwise true exactly when p was granted to the user or is of the
\* user's role; get_user_permissions(user) is the set of the permissions so
\* permitted, and check_permission agrees with membership in it for every
\* user and permission.
C30_Precedence ==
    unit = "AccessController" =>
        /\ \A i \in Calls :
              /\ args[i][1] = "check_permission" =>
                    rets[i] = Permitted(i, args[i][2], args[i][3])
              /\ args[i][1] = "get_user_permissions" =>
                    rets[i] = {p \in Permission : Permitted(i, args[i][2], p)}
        /\ \A u \in UserIds, p \in Permission :
              check_permission(users[u], p).granted
                 <=> p \in get_user_permissions(users[u])

\* C30 witness: READ_PHI, a permission of the nurse's role, was denied to
\* the nurse and then granted; the check that follows refuses it.
C30_Witness ==
    /\ unit = "AccessController"
    /\ Len(rets) = 3
    /\ args[1] = <<"deny_permission", "nurse1", "READ_PHI">>
    /\ args[2] = <<"grant_permission", "nurse1", "READ_PHI">>
    /\ args[3] = <<"check_permission", "nurse1", "READ_PHI">>
    /\ rets[3] = FALSE
    /\ "READ_PHI" \in users["nurse1"].custom_permissions
    /\ access_log[1].reason = "Permission explicitly denied"

=============================================================================
